---- MODULE Spec2Model ----
(***************************************************************************)
(* Canvas2Tutor: the Canvas -> Tutor LMS migration pipeline.               *)
(*                                                                         *)
(* The model follows the Python sources: the validator, the manifest,      *)
(* page, quiz, question and assignment parsers, the orphaned content       *)
(* handler, the course transformer, the exporter and the pipeline driver   *)
(* (Canvas_Converter.py).                                                  *)
(*                                                                         *)
(* Strings.  A Python str is a sequence of tokens.  A token is either a    *)
(* word (a run of characters no operation of the program ever splits) or a *)
(* single separator character ("/", "\\", ".", "_", " ", "$", ...).        *)
(* Substring tests, replace(), lower(), Path.name, Path.stem and f-string  *)
(* concatenation are then plain sequence operations.  The empty string is  *)
(* <<>>; None is the distinguished value None.                             *)
(***************************************************************************)
EXTENDS Integers, Sequences, FiniteSets, TLC

VARIABLES
    pc,                     \* position of MigrationPipeline.run
    run,                    \* number of the current pipeline run on this directory
    disk,                   \* the files below the course directory: relative path -> document
    validation_report,      \* MigrationReport.validation_report
    parse_report,           \* MigrationReport.parse_report
    canvas_course,          \* the CanvasCourse returned by Parser.parse
    tutor_course,           \* the TutorCourse returned by CourseTransformer.transform
    transformation_report,  \* MigrationReport.transformation_report
    verification_report,    \* MigrationReport.verification_report
    status,                 \* MigrationReport.status
    all_errors,             \* MigrationReport.all_errors
    total_errors,           \* MigrationReport.total_errors
    total_warnings,         \* MigrationReport.total_warnings
    total_info,             \* MigrationReport.total_info
    orphans_by_run,         \* history: identifiers of the orphan pages each run recovered
    recorded,               \* history: the diagnostics the components of this run appended to their errors lists
    fs_reverse,             \* the order in which the file system lists directories
    rewrite_input,          \* arguments of a call of rewrite_canvas_asset_paths
    orphaned_handler,       \* an OrphanedContentHandler that is called on its own: its errors list and what its calls returned
    rewrite_output          \* its results for the two spellings of the placeholder

vars == <<pc, run, disk, fs_reverse, rewrite_input, orphaned_handler, rewrite_output, validation_report, parse_report, canvas_course,
          tutor_course, transformation_report, verification_report, status,
          all_errors, total_errors, total_warnings, total_info, orphans_by_run, recorded>>

-----------------------------------------------------------------------------
(* Bounds *)

MaxRuns == 2

-----------------------------------------------------------------------------
(* Strings as token sequences *)

None == <<"<None>">>

Truthy(s) == s # None /\ s # <<>>

\* needle in hay
IsSubstring(needle, hay) ==
    \E i \in 0..(Len(hay) - Len(needle)) : SubSeq(hay, i + 1, i + Len(needle)) = needle

EndsWith(s, suffix) ==
    /\ Len(suffix) <= Len(s)
    /\ SubSeq(s, Len(s) - Len(suffix) + 1, Len(s)) = suffix

StartsWith(s, prefix) ==
    /\ Len(prefix) <= Len(s)
    /\ SubSeq(s, 1, Len(prefix)) = prefix

\* str.replace(old, new) for single-character old and new
Replace(s, old, new) == [i \in DOMAIN s |-> IF s[i] = old THEN new ELSE s[i]]

\* the words of the model that str.title() changes, with their title case
TitleCased ==
    { <<"p1", "P1">>, <<"p2", "P2">>, <<"o1", "O1">>, <<"o2", "O2">>,
      <<"qa", "Qa">>, <<"qb", "Qb">>, <<"s1", "S1">>,
      <<"assessment", "Assessment">>, <<"meta", "Meta">>,
      <<"migration", "Migration">>, <<"report", "Report">>,
      <<"intro", "Intro">>, <<"quiz", "Quiz">>, <<"week", "Week">>,
      <<"essay", "Essay">>, <<"untitled", "Untitled">>, <<"module", "Module">>,
      <<"item", "Item">>, <<"question", "Question">>, <<"assignment", "Assignment">>,
      <<"wiki_content", "Wiki_Content">>,
      <<"multiple_answers_question", "Multiple_Answers_Question">> }

\* str.title() and str.lower() of one token
TitleToken(t) == IF \E c \in TitleCased : c[1] = t THEN (CHOOSE c \in TitleCased : c[1] = t)[2] ELSE t

LowerToken(t) == IF \E c \in TitleCased : c[2] = t THEN (CHOOSE c \in TitleCased : c[2] = t)[1] ELSE t

Title(s) == [i \in DOMAIN s |-> TitleToken(s[i])]

Lower(s) == [i \in DOMAIN s |-> LowerToken(s[i])]

\* a local name for a value: With(v, LAMBDA x : e) is e with x bound to v
With(value, Body(_)) == Body(value)

\* position of the last occurrence of token t in s, 0 if there is none
LastIndexOf(s, t) ==
    IF \E i \in DOMAIN s : s[i] = t
    THEN CHOOSE i \in DOMAIN s : s[i] = t /\ \A j \in DOMAIN s : s[j] = t => j <= i
    ELSE 0

\* pathlib: Path.name, Path.stem, Path.parent and the / operator
PathName(p) == SubSeq(p, LastIndexOf(p, "/") + 1, Len(p))

PathStem(p) ==
    LET name == PathName(p)
        dot == LastIndexOf(name, ".")
    IN  IF dot > 1 THEN SubSeq(name, 1, dot - 1) ELSE name

PathParent(p) ==
    LET slash == LastIndexOf(p, "/")
    IN  IF slash > 1 THEN SubSeq(p, 1, slash - 1) ELSE <<>>

PathJoin(a, b) == IF a = <<>> THEN b ELSE a \o <<"/">> \o b

\* Path.glob("*.ext") / Path.rglob("*.ext") on a file name
HasSuffix(p, ext) == EndsWith(PathName(p), <<".", ext>>) /\ Len(PathName(p)) > 2

\* number of characters of a string: the characters of its tokens
TokenLen(t) ==
    CASE t \in {"/", "\\", ".", "_", " ", "-", "\n"} -> 1
      [] t = "hi" -> 2
      [] t = "<p>" -> 3
      [] t = "</p>" -> 4
      [] OTHER -> 12

RECURSIVE StrLen(_)
StrLen(s) == IF s = <<>> THEN 0 ELSE TokenLen(Head(s)) + StrLen(Tail(s))

\* the elements of a sequence
Range(s) == {s[i] : i \in DOMAIN s}

\* concatenation of a sequence of sequences
RECURSIVE Flatten(_)
Flatten(ss) == IF ss = <<>> THEN <<>> ELSE Head(ss) \o Flatten(Tail(ss))

-----------------------------------------------------------------------------
(* Diagnostics: models/migration_report.py *)

CRITICAL == "critical"
ERROR == "error"
WARNING == "warning"
INFO == "info"

\* MigrationError(severity, error_type, file_path, canvas_entity_type, canvas_entity_id)
MigrationError(severity, error_type, file_path, entity_type, entity_id) ==
    [severity |-> severity, error_type |-> error_type, file_path |-> file_path,
     canvas_entity_type |-> entity_type, canvas_entity_id |-> entity_id]

-----------------------------------------------------------------------------
(* The course directory and its files *)

\* str(course_directory)
CourseDir == <<"/", "cs1143">>

\* str(course_directory / rel)
AbsPath(rel) == CourseDir \o <<"/">> \o rel

\* config/canvas_schemas.py
MANIFEST == <<"imsmanifest", ".", "xml">>

SYSTEM_XML_FILES ==
    { <<"imsmanifest", ".", "xml">>,
      <<"course", "_", "settings", ".", "xml">>,
      <<"module", "_", "meta", ".", "xml">>,
      <<"assignment", "_", "settings", ".", "xml">>,
      <<"syllabus", ".", "html">> }

\* Path.exists() for a path relative to the course directory: a file, or a
\* directory that holds a file
IsDir(d, dir) == \E p \in DOMAIN d : StartsWith(p, dir \o <<"/">>)

Exists(d, rel) == rel \in DOMAIN d \/ IsDir(d, rel)

\* utils/xml_utils.py parse_xml_file: raises for a missing or malformed file,
\* returns the root element otherwise (it never returns None)
parse_xml_file_raises(d, rel) == rel \notin DOMAIN d \/ ~d[rel].wellformed

\* Path.glob("*.ext") directly below directory dir
Glob(d, dir, ext) == {p \in DOMAIN d : PathParent(p) = dir /\ HasSuffix(p, ext)}

\* Path.rglob("*.ext") below the course directory
RGlob(d, ext) == {p \in DOMAIN d : HasSuffix(p, ext)}

\* Path.iterdir() of the course directory restricted to directories: the
\* first path component of every file that lies in a subdirectory
FirstComponent(p) ==
    LET slash == CHOOSE i \in DOMAIN p : p[i] = "/" /\ \A j \in DOMAIN p : p[j] = "/" => i <= j
    IN  SubSeq(p, 1, slash - 1)

TopLevelDirs(d) == {FirstComponent(p) : p \in {q \in DOMAIN d : \E i \in DOMAIN q : q[i] = "/"}}

\* The file system enumerates a directory in an order the program does not
\* control.  The model lets the order be FileOrder or its reverse (fs_reverse);
\* files the exporter creates come after the files of the export.
RECURSIVE SetToSeq(_)
SetToSeq(S) ==
    IF S = {} THEN <<>>
    ELSE LET x == CHOOSE x \in S : TRUE
         IN  <<x>> \o SetToSeq(S \ {x})

RECURSIVE FilterSeq(_, _)
FilterSeq(s, S) ==
    IF s = <<>> THEN <<>>
    ELSE IF Head(s) \in S THEN <<Head(s)>> \o FilterSeq(Tail(s), S)
    ELSE FilterSeq(Tail(s), S)

Reverse(s) == [i \in DOMAIN s |-> s[Len(s) + 1 - i]]

-----------------------------------------------------------------------------
(* The files of the modelled exports *)

P1_XML == <<"wiki_content", "/", "p1", ".", "xml">>
P2_XML == <<"wiki_content", "/", "p2", ".", "xml">>
O1_XML == <<"extra", "/", "o1", ".", "xml">>
O2_HTML == <<"extra", "/", "o2", ".", "html">>
Q1_META == <<"q1", "/", "assessment", "_", "meta", ".", "xml">>
Q1_QA == <<"q1", "/", "qa", ".", "xml">>
Q1_QB == <<"q1", "/", "qb", ".", "xml">>
A1_SETTINGS == <<"a1", "/", "assignment", "_", "settings", ".", "xml">>

FileOrder == <<MANIFEST, A1_SETTINGS, O1_XML, O2_HTML, Q1_META, Q1_QA, Q1_QB, P1_XML, P2_XML>>

\* the members of the set S of paths in directory order
Listing(S, reverse) ==
    LET known == FilterSeq(FileOrder, S)
        created == SetToSeq(S \ Range(FileOrder))
    IN  IF reverse THEN Reverse(known \o created) ELSE known \o created

-----------------------------------------------------------------------------
(* models/canvas_models.py *)

ACTIVE == <<"active">>
UNPUBLISHED == <<"unpublished">>
DELETED == <<"deleted">>

\* QuestionType values
MULTIPLE_CHOICE == "multiple_choice_question"
TRUE_FALSE == "true_false_question"
FILL_IN_BLANK == "fill_in_multiple_blanks_question"
ESSAY == "essay_question"
SHORT_ANSWER == "short_answer_question"
MATCHING == "matching_question"
NUMERICAL == "numerical_question"
CALCULATED == "calculated_question"
MULTIPLE_ANSWERS == "multiple_answers_question"
FILE_UPLOAD == "file_upload_question"
TEXT_ONLY == "text_only_question"
MULTIPLE_DROPDOWNS == "multiple_dropdowns_question"
FORMULA == "formula_question"
CATEGORIZATION == "categorization_question"
ORDERING == "ordering_question"

QuestionType ==
    {MULTIPLE_CHOICE, TRUE_FALSE, FILL_IN_BLANK, ESSAY, SHORT_ANSWER, MATCHING,
     NUMERICAL, CALCULATED, MULTIPLE_ANSWERS, FILE_UPLOAD, TEXT_ONLY,
     MULTIPLE_DROPDOWNS, FORMULA, CATEGORIZATION, ORDERING}

CanvasResource(identifier, href, type, file_exists) ==
    [identifier |-> identifier, href |-> href, type |-> type, file_exists |-> file_exists]

CanvasModuleItem(title, identifier, content_type, content_file, items, position) ==
    [title |-> title, identifier |-> identifier, content_type |-> content_type,
     content_file |-> content_file, items |-> items, position |-> position]

CanvasModule(title, identifier, position, items) ==
    [title |-> title, identifier |-> identifier, position |-> position, items |-> items]

CanvasPage(title, identifier, body, workflow_state, source_file) ==
    [title |-> title, identifier |-> identifier, body |-> body,
     workflow_state |-> workflow_state, source_file |-> source_file]

CanvasAssignment(title, identifier, description, points_possible, workflow_state, source_file) ==
    [title |-> title, identifier |-> identifier, description |-> description,
     points_possible |-> points_possible, workflow_state |-> workflow_state,
     source_file |-> source_file]

CanvasQuestionAnswer(id, text, weight) == [id |-> id, text |-> text, weight |-> weight]

CanvasQuestion(identifier, title, question_type, question_text, points_possible, answers, source_file) ==
    [identifier |-> identifier, title |-> title, question_type |-> question_type,
     question_text |-> question_text, points_possible |-> points_possible,
     answers |-> answers, source_file |-> source_file]

CanvasQuiz(title, identifier, description, time_limit, allowed_attempts, questions, workflow_state, source_file) ==
    [title |-> title, identifier |-> identifier, description |-> description,
     time_limit |-> time_limit, allowed_attempts |-> allowed_attempts,
     questions |-> questions, workflow_state |-> workflow_state,
     source_file |-> source_file]

\* resources is the dict of the manifest's resources, resource_order the
\* order of its keys
CanvasCourse(title, identifier, modules, resources, resource_order) ==
    [title |-> title, identifier |-> identifier, modules |-> modules,
     resources |-> resources, resource_order |-> resource_order,
     pages |-> <<>>, assignments |-> <<>>,
     quizzes |-> <<>>, workflow_state |-> ACTIVE]

\* Parser.parse / ManifestParser.parse returning None
NoCourse == [none |-> TRUE]

-----------------------------------------------------------------------------
(* utils/html_utils.py, utils/xml_utils.py *)

\* the whitespace characters
Whitespace == {" ", "\n"}

\* str.strip()
RECURSIVE LStrip(_)
LStrip(s) == IF s # <<>> /\ Head(s) \in Whitespace THEN LStrip(Tail(s)) ELSE s

Strip(s) == Reverse(LStrip(Reverse(LStrip(s))))

\* re.sub(r'\s+', ' ', content): runs of whitespace collapse to one blank
RECURSIVE CollapseSpaces(_)
CollapseSpaces(s) ==
    IF s = <<>> THEN <<>>
    ELSE IF Head(s) \in Whitespace
    THEN IF Len(s) >= 2 /\ s[2] \in Whitespace THEN CollapseSpaces(Tail(s))
         ELSE <<" ">> \o CollapseSpaces(Tail(s))
    ELSE <<Head(s)>> \o CollapseSpaces(Tail(s))

clean_html(content) ==
    IF ~Truthy(content) THEN <<>> ELSE Strip(CollapseSpaces(content))

\* get_element_text(element, default): element is the text of the element,
\* None when the element is absent
get_element_text(element, default) ==
    IF element = None THEN default
    ELSE IF Strip(element) # <<>> THEN Strip(element) ELSE default

\* the workflow_state element of a page or of an assignment settings document
_extract_workflow_state(root) ==
    IF root.workflow_state # None
    THEN LET state_text == Lower(get_element_text(root.workflow_state, ACTIVE))
         IN  IF state_text = UNPUBLISHED THEN UNPUBLISHED
             ELSE IF state_text = DELETED THEN DELETED
             ELSE ACTIVE
    ELSE ACTIVE

-----------------------------------------------------------------------------
(* parsers/manifest_parser.py *)

\* dict built by the loop "resource_map[identifier] = resource": the last
\* resource element with a given identifier wins
_build_resource_map(d, root) ==
    LET elems == root.resources
        ids == {elems[i].identifier : i \in {j \in DOMAIN elems : Truthy(elems[j].identifier)}}
        last(id) == CHOOSE i \in DOMAIN elems :
                        /\ elems[i].identifier = id
                        /\ \A j \in DOMAIN elems : elems[j].identifier = id => j <= i
    IN  [id \in ids |->
            LET e == elems[last(id)]
            IN  CanvasResource(e.identifier, e.href, e.type,
                               Truthy(e.href) /\ Exists(d, e.href))]

\* the keys of the resource dict in insertion order
RECURSIVE ResourceOrder(_)
ResourceOrder(elems) ==
    IF elems = <<>> THEN <<>>
    ELSE LET rest == ResourceOrder(SubSeq(elems, 1, Len(elems) - 1))
             id == elems[Len(elems)].identifier
         IN  IF ~Truthy(id) \/ id \in Range(rest) THEN rest ELSE Append(rest, id)

\* content type inferred from the declared resource type
InferContentType(type) ==
    IF ~Truthy(type) THEN "none"
    ELSE IF IsSubstring(<<"assessment">>, Lower(type)) THEN "quiz"
    ELSE IF IsSubstring(<<"assignment">>, Lower(type)) THEN "assignment"
    ELSE IF IsSubstring(<<"webcontent">>, Lower(type)) THEN "page"
    ELSE IF IsSubstring(<<"discussion">>, Lower(type)) THEN "discussion"
    ELSE IF IsSubstring(<<"associatedcontent">>, Lower(type)) THEN "assignment"
    ELSE "none"

RECURSIVE _parse_child_item(_, _, _)
_parse_child_item(item_elem, resources, position) ==
    LET known == Truthy(item_elem.identifierref) /\ item_elem.identifierref \in DOMAIN resources
        resource == resources[item_elem.identifierref]
    IN  CanvasModuleItem(
            item_elem.title,
            item_elem.identifier,
            IF known THEN InferContentType(resource.type) ELSE "none",
            IF known THEN resource.href ELSE None,
            [i \in DOMAIN item_elem.items |->
                _parse_child_item(item_elem.items[i], resources, i - 1)],
            position)

_parse_module_item(item_elem, resources, position) ==
    CanvasModule(
        item_elem.title,
        item_elem.identifier,
        position,
        [i \in DOMAIN item_elem.items |->
            _parse_child_item(item_elem.items[i], resources, i - 1)])

TopLevelItems_NoFlatten(root) == root.items

\* the top-level items after the wrapper check
TopLevelItems(root) ==
    IF Len(root.items) = 1 /\ root.items[1].items # <<>>
    THEN root.items[1].items
    ELSE root.items

_parse_organization(root, resources) ==
    IF ~root.has_organization
    THEN [modules |-> <<>>,
          errors |-> <<MigrationError(WARNING, "NO_ORGANIZATION", None, None, None)>>]
    ELSE [modules |-> [i \in DOMAIN TopLevelItems(root) |->
                          _parse_module_item(TopLevelItems(root)[i], resources, i - 1)],
          errors |-> <<>>]

\* ManifestParser.parse: the course, or None with a CRITICAL diagnostic
ManifestParser_parse(d) ==
    IF parse_xml_file_raises(d, MANIFEST)
    THEN [course |-> NoCourse,
          errors |-> <<MigrationError(CRITICAL, "MANIFEST_PARSE_ERROR", AbsPath(MANIFEST), None, None)>>]
    ELSE LET root == d[MANIFEST]
             resources == _build_resource_map(d, root)
             org == _parse_organization(root, resources)
         IN  [course |-> CanvasCourse(get_element_text(root.title, <<"Untitled", " ", "Course">>),
                                      root.identifier, org.modules, resources,
                                      ResourceOrder(root.resources)),
              errors |-> org.errors]

-----------------------------------------------------------------------------
(* parsers/page_parser.py *)

WIKI_CONTENT == <<"wiki_content">>

PageParser_extract_title(root, page_file) ==
    IF root.title # None THEN get_element_text(root.title, PathStem(page_file))
    ELSE PathStem(page_file)

PageParser_extract_body(root) ==
    IF root.body # None THEN clean_html(root.body)
    ELSE IF root.text # None THEN clean_html(get_element_text(root.text, <<>>))
    ELSE <<>>

\* parse_page: <<the page>> or <<>> (None), with the diagnostics it records
parse_page(d, page_file) ==
    IF parse_xml_file_raises(d, page_file)
    THEN [pages |-> <<>>,
          errors |-> <<MigrationError(ERROR, "PAGE_PARSE_ERROR", AbsPath(page_file), None, None)>>]
    ELSE [pages |-> <<CanvasPage(PageParser_extract_title(d[page_file], page_file),
                                 PathStem(page_file),
                                 PageParser_extract_body(d[page_file]),
                                 _extract_workflow_state(d[page_file]),
                                 AbsPath(page_file))>>,
          errors |-> <<>>]

RECURSIVE ParsePages(_, _)
ParsePages(d, files) ==
    IF files = <<>> THEN [pages |-> <<>>, errors |-> <<>>]
    ELSE LET first == parse_page(d, Head(files))
             rest == ParsePages(d, Tail(files))
         IN  [pages |-> first.pages \o rest.pages, errors |-> first.errors \o rest.errors]

parse_all_pages(d, reverse) ==
    IF ~IsDir(d, WIKI_CONTENT) THEN [pages |-> <<>>, errors |-> <<>>]
    ELSE ParsePages(d, Listing(Glob(d, WIKI_CONTENT, "xml"), reverse))

-----------------------------------------------------------------------------
(* parsers/question_parser.py *)

\* the table of _determine_question_type; a value outside it gives ESSAY
QuestionParser_type_mapping ==
    {MULTIPLE_CHOICE, TRUE_FALSE, ESSAY, SHORT_ANSWER, FILL_IN_BLANK, MATCHING,
     NUMERICAL, CALCULATED, MULTIPLE_ANSWERS, FILE_UPLOAD, TEXT_ONLY}

\* _determine_question_type without the lower() of the type text
_determine_question_type_CaseSensitive(root) ==
    IF root.question_type # "absent"
    THEN IF root.question_type \in QuestionParser_type_mapping
         THEN root.question_type ELSE ESSAY
    ELSE IF root.cardinality # "absent"
    THEN IF root.cardinality = "multiple" THEN MULTIPLE_ANSWERS
         ELSE IF root.cardinality \in {"single", "unset"} THEN MULTIPLE_CHOICE
         ELSE ESSAY
    ELSE ESSAY

\* question_type "absent": no question_type element; cardinality "absent": no
\* responseDeclaration element, "unset": a responseDeclaration without the
\* attribute, for which get_element_attribute returns the default 'single'
_determine_question_type(root) ==
    IF root.question_type # "absent"
    THEN IF LowerToken(root.question_type) \in QuestionParser_type_mapping
         THEN LowerToken(root.question_type) ELSE ESSAY
    ELSE IF root.cardinality # "absent"
    THEN LET cardinality == IF root.cardinality = "unset" THEN "single" ELSE root.cardinality
         IN  IF cardinality = "multiple" THEN MULTIPLE_ANSWERS
             ELSE IF cardinality = "single" THEN MULTIPLE_CHOICE
             ELSE ESSAY
    ELSE ESSAY

_get_answer_weight(root, answer_id) ==
    IF \E i \in DOMAIN root.correct : root.correct[i] = answer_id THEN 100 ELSE 0

_extract_answers(root, question_type) ==
    IF question_type \in {ESSAY, FILE_UPLOAD, TEXT_ONLY} THEN <<>>
    ELSE [i \in DOMAIN root.choices |->
            CanvasQuestionAnswer(root.choices[i].identifier,
                                 clean_html(root.choices[i].text),
                                 _get_answer_weight(root, root.choices[i].identifier))]

parse_question(d, question_file) ==
    IF parse_xml_file_raises(d, question_file)
    THEN [questions |-> <<>>,
          errors |-> <<MigrationError(WARNING, "QUESTION_PARSE_ERROR", AbsPath(question_file), None, None)>>]
    ELSE LET root == d[question_file]
             question_type == _determine_question_type(root)
         IN  [questions |->
                <<CanvasQuestion(
                    IF root.identifier # <<>> THEN root.identifier ELSE PathStem(question_file),
                    get_element_text(root.title, <<"Question">>),
                    question_type,
                    IF root.body # None THEN clean_html(root.body) ELSE <<>>,
                    root.points_possible,
                    _extract_answers(root, question_type),
                    AbsPath(question_file))>>,
              errors |-> <<>>]

RECURSIVE ParseQuestions(_, _)
ParseQuestions(d, files) ==
    IF files = <<>> THEN [questions |-> <<>>, errors |-> <<>>]
    ELSE LET first == parse_question(d, Head(files))
             rest == ParseQuestions(d, Tail(files))
         IN  [questions |-> first.questions \o rest.questions,
              errors |-> first.errors \o rest.errors]

ASSESSMENT_META == <<"assessment", "_", "meta", ".", "xml">>
ASSESSMENT == <<"assessment", ".", "xml">>
ASSIGNMENT_SETTINGS == <<"assignment", "_", "settings", ".", "xml">>

parse_questions_from_quiz(d, quiz_dir, reverse) ==
    ParseQuestions(d, Listing({f \in Glob(d, quiz_dir, "xml") :
                                  PathName(f) \notin {ASSESSMENT_META, ASSESSMENT, ASSIGNMENT_SETTINGS}},
                              reverse))

-----------------------------------------------------------------------------
(* parsers/quiz_parser.py *)

\* parse_quiz: <<the quiz>> or <<>> (None); errors of the quiz parser and
\* qerrors of its question parser
parse_quiz(d, quiz_dir, reverse) ==
    LET assessment_file ==
            IF PathJoin(quiz_dir, ASSESSMENT_META) \in DOMAIN d
            THEN PathJoin(quiz_dir, ASSESSMENT_META)
            ELSE PathJoin(quiz_dir, ASSESSMENT)
    IN  IF assessment_file \notin DOMAIN d
        THEN [quizzes |-> <<>>, errors |-> <<>>, qerrors |-> <<>>]
        ELSE IF parse_xml_file_raises(d, assessment_file)
        THEN [quizzes |-> <<>>,
              errors |-> <<MigrationError(ERROR, "QUIZ_PARSE_ERROR", AbsPath(assessment_file), None, None)>>,
              qerrors |-> <<>>]
        ELSE LET root == d[assessment_file]
                 parsed == parse_questions_from_quiz(d, quiz_dir, reverse)
             IN  [quizzes |->
                    <<CanvasQuiz(
                        IF root.title # None THEN get_element_text(root.title, PathName(quiz_dir))
                        ELSE PathName(quiz_dir),
                        PathName(quiz_dir),
                        IF root.body # None THEN clean_html(get_element_text(root.body, <<>>)) ELSE <<>>,
                        root.time_limit,
                        root.allowed_attempts,
                        parsed.questions,
                        ACTIVE,
                        AbsPath(assessment_file))>>,
                  errors |-> <<>>,
                  qerrors |-> parsed.errors]

RECURSIVE ParseQuizzes(_, _, _)
ParseQuizzes(d, dirs, reverse) ==
    IF dirs = <<>> THEN [quizzes |-> <<>>, errors |-> <<>>, qerrors |-> <<>>]
    ELSE LET first == parse_quiz(d, Head(dirs), reverse)
             rest == ParseQuizzes(d, Tail(dirs), reverse)
         IN  [quizzes |-> first.quizzes \o rest.quizzes,
              errors |-> first.errors \o rest.errors,
              qerrors |-> first.qerrors \o rest.qerrors]

NON_CC_ASSESSMENTS == <<"non_cc_assessments">>

\* the directories directly below directory dir
SubDirs(d, dir) ==
    {PathJoin(dir, FirstComponent(SubSeq(p, Len(dir) + 2, Len(p)))) :
        p \in {q \in DOMAIN d :
                 /\ StartsWith(q, dir \o <<"/">>)
                 /\ \E i \in (Len(dir) + 2)..Len(q) : q[i] = "/"}}

find_all_quizzes(d, reverse) ==
    LET nested == Listing(SubDirs(d, NON_CC_ASSESSMENTS), reverse)
        root == Listing({dir \in TopLevelDirs(d) :
                            /\ dir # NON_CC_ASSESSMENTS
                            /\ \/ PathJoin(dir, ASSESSMENT_META) \in DOMAIN d
                               \/ PathJoin(dir, ASSESSMENT) \in DOMAIN d},
                        reverse)
    IN  ParseQuizzes(d, nested \o root, reverse)

-----------------------------------------------------------------------------
(* parsers/assignment_parser.py *)

parse_assignment(d, assignment_dir, reverse) ==
    LET settings_file == PathJoin(assignment_dir, ASSIGNMENT_SETTINGS)
    IN  IF settings_file \notin DOMAIN d
        THEN [assignments |-> <<>>, errors |-> <<>>]
        ELSE IF parse_xml_file_raises(d, settings_file)
        THEN [assignments |-> <<>>,
              errors |-> <<MigrationError(ERROR, "ASSIGNMENT_PARSE_ERROR", AbsPath(settings_file), None, None)>>]
        ELSE LET root == d[settings_file]
                 primary == IF root.body # None THEN clean_html(get_element_text(root.body, <<>>)) ELSE <<>>
                 html_files == Listing(Glob(d, assignment_dir, "html"), reverse)
                 description ==
                    IF primary = <<>> /\ html_files # <<>>
                    THEN d[html_files[1]].body
                    ELSE primary
             IN  [assignments |->
                    <<CanvasAssignment(
                        get_element_text(root.title, <<"Untitled Assignment">>),
                        PathName(assignment_dir),
                        description,
                        root.points_possible,
                        _extract_workflow_state(root),
                        AbsPath(settings_file))>>,
                  errors |-> <<>>]

RECURSIVE ParseAssignments(_, _, _)
ParseAssignments(d, dirs, reverse) ==
    IF dirs = <<>> THEN [assignments |-> <<>>, errors |-> <<>>]
    ELSE LET first == parse_assignment(d, Head(dirs), reverse)
             rest == ParseAssignments(d, Tail(dirs), reverse)
         IN  [assignments |-> first.assignments \o rest.assignments,
              errors |-> first.errors \o rest.errors]

find_all_assignments(d, reverse) ==
    ParseAssignments(d,
        Listing({dir \in TopLevelDirs(d) : PathJoin(dir, ASSIGNMENT_SETTINGS) \in DOMAIN d}, reverse),
        reverse)

-----------------------------------------------------------------------------
(* parsers/pptx_parser.py *)

\* parse_pptx(file_path, identifier): <<the page>> or <<>> (None)
parse_pptx(d, file_path, identifier) ==
    IF file_path \notin DOMAIN d THEN [pages |-> <<>>, errors |-> <<>>]
    ELSE IF ~d[file_path].wellformed
    THEN [pages |-> <<>>,
          errors |-> <<MigrationError(WARNING, "PPTX_PARSE_ERROR", AbsPath(file_path), None, None)>>]
    ELSE [pages |-> <<CanvasPage(Title(Replace(PathStem(file_path), "_", " ")),
                                 identifier, d[file_path].body, ACTIVE, AbsPath(file_path))>>,
          errors |-> <<>>]

-----------------------------------------------------------------------------
(* parsers/orphaned_content_handler.py *)

\* the literal the handler looks for in a path to skip the output directory
SKIPPED_OUTPUT_NAME == <<"tutor", "_", "lms", "_", "output">>

InSkippedOutput(rel) == IsSubstring(SKIPPED_OUTPUT_NAME, AbsPath(rel))

find_orphaned_xml_files(d, referenced_files, reverse) ==
    Listing({xml_file \in RGlob(d, "xml") :
                /\ PathName(xml_file) \notin SYSTEM_XML_FILES
                /\ ~InSkippedOutput(xml_file)
                /\ xml_file \notin referenced_files},
            reverse)

\* xml_file.stem.replace('_', ' ').replace('-', ' ').title()
TitleFromStem(file) == Title(Replace(Replace(PathStem(file), "_", " "), "-", " "))

_extract_title_from_xml(root, xml_file) ==
    IF root.title # None /\ get_element_text(root.title, <<>>) # <<>>
    THEN get_element_text(root.title, <<>>)
    ELSE TitleFromStem(xml_file)

\* the text nodes of the document: etree.tostring(root, method='text')
AllText(root) ==
    (IF root.title # None THEN root.title ELSE <<>>)
    \o (IF root.body # None THEN root.body ELSE <<>>)
    \o (IF root.text # None THEN root.text ELSE <<>>)

_extract_content_from_xml(root) ==
    LET structured ==
            (IF root.body # None /\ Strip(root.body) # <<>> THEN <<Strip(root.body)>> ELSE <<>>)
            \o (IF root.text # None /\ Strip(root.text) # <<>> THEN <<Strip(root.text)>> ELSE <<>>)
        content_parts ==
            IF structured # <<>> THEN structured
            ELSE IF StrLen(Strip(AllText(root))) > 10
            THEN <<(<<"<p>">> \o Strip(AllText(root)) \o <<"</p>">>)>>
            ELSE <<>>
        combined ==
            IF content_parts = <<>> THEN <<>>
            ELSE IF Len(content_parts) = 1 THEN content_parts[1]
            ELSE content_parts[1] \o <<"\n">> \o content_parts[2]
    IN  clean_html(combined)

ORPHANED == <<"orphaned", "_">>

parse_orphaned_xml(d, xml_file) ==
    IF parse_xml_file_raises(d, xml_file)
    THEN [pages |-> <<>>,
          errors |-> <<MigrationError(WARNING, "ORPHANED_XML_PARSE_ERROR", AbsPath(xml_file), None, None)>>]
    ELSE LET content == _extract_content_from_xml(d[xml_file])
         IN  IF content = <<>> \/ StrLen(Strip(content)) < 10
             THEN [pages |-> <<>>, errors |-> <<>>]
             ELSE [pages |-> <<CanvasPage(_extract_title_from_xml(d[xml_file], xml_file),
                                          ORPHANED \o PathStem(xml_file),
                                          content, ACTIVE, AbsPath(xml_file))>>,
                   errors |-> <<>>]

\* wellformed of an HTML file: it can be read as UTF-8 text
parse_orphaned_html(d, html_file) ==
    IF ~d[html_file].wellformed
    THEN [pages |-> <<>>,
          errors |-> <<MigrationError(WARNING, "ORPHANED_HTML_PARSE_ERROR", AbsPath(html_file), None, None)>>]
    ELSE [pages |-> <<CanvasPage(TitleFromStem(html_file),
                                 ORPHANED \o PathStem(html_file),
                                 clean_html(d[html_file].body), ACTIVE, AbsPath(html_file))>>,
          errors |-> <<>>]

\* one of the three loops of process_all_orphaned_content over the files in
\* directory order; kind selects the parser
OrphanParse(d, kind, file) ==
    CASE kind = "xml" -> parse_orphaned_xml(d, file)
      [] kind = "html" -> parse_orphaned_html(d, file)
      [] kind = "pptx" -> parse_pptx(d, file, ORPHANED \o PathStem(file))

RECURSIVE ParseOrphans(_, _, _)
ParseOrphans(d, kind, files) ==
    IF files = <<>> THEN [pages |-> <<>>, errors |-> <<>>]
    ELSE LET first == OrphanParse(d, kind, Head(files))
             rest == ParseOrphans(d, kind, Tail(files))
         IN  [pages |-> first.pages \o rest.pages, errors |-> first.errors \o rest.errors]

process_all_orphaned_content(d, referenced_files, reverse) ==
    LET xml == ParseOrphans(d, "xml", find_orphaned_xml_files(d, referenced_files, reverse))
        html == ParseOrphans(d, "html",
                    Listing({f \in RGlob(d, "html") :
                                ~InSkippedOutput(f) /\ f \notin referenced_files}, reverse))
        pptx == ParseOrphans(d, "pptx",
                    Listing({f \in RGlob(d, "pptx") :
                                /\ ~InSkippedOutput(f)
                                /\ ~\E ref \in referenced_files :
                                       Truthy(ref) /\ Replace(ref, "\\", "/") = Replace(f, "\\", "/")},
                            reverse))
    IN  [pages |-> xml.pages \o html.pages \o pptx.pages,
         errors |-> xml.errors \o html.errors,
         pptx_errors |-> pptx.errors]

-----------------------------------------------------------------------------
(* stages/parser.py *)

ParseReport(pages_parsed, assignments_parsed, quizzes_parsed, questions_parsed, errors) ==
    [pages_parsed |-> pages_parsed, assignments_parsed |-> assignments_parsed,
     quizzes_parsed |-> quizzes_parsed, questions_parsed |-> questions_parsed,
     errors |-> errors]

\* the set Parser.parse hands to the orphan handler as the files the manifest
\* references (parser.py line 133)
ReferencedFiles(course) == DOMAIN course.resources

\* the PPTX resources of the manifest, converted to pages
RECURSIVE ParsePptxResources(_, _, _)
ParsePptxResources(d, course, ids) ==
    IF ids = <<>> THEN [pages |-> <<>>, errors |-> <<>>]
    ELSE LET resource == course.resources[Head(ids)]
             rest == ParsePptxResources(d, course, Tail(ids))
             first ==
                IF /\ Truthy(resource.type)
                   /\ IsSubstring(<<"webcontent">>, Lower(resource.type))
                   /\ Truthy(resource.href)
                   /\ EndsWith(Lower(resource.href), <<".", "pptx">>)
                   /\ Exists(d, resource.href)
                THEN parse_pptx(d, resource.href, Head(ids))
                ELSE [pages |-> <<>>, errors |-> <<>>]
         IN  [pages |-> first.pages \o rest.pages, errors |-> first.errors \o rest.errors]

RECURSIVE SumQuestions(_)
SumQuestions(quizzes) ==
    IF quizzes = <<>> THEN 0 ELSE Len(Head(quizzes).questions) + SumQuestions(Tail(quizzes))

ParseContent_OrphansReplaceModules(course, pages, pptx, assignments, quizzes, orphaned) ==
    [course |-> [course EXCEPT
                    !.modules = IF orphaned.pages = <<>> THEN @ ELSE <<>>,
                    !.pages = pages.pages \o pptx.pages \o orphaned.pages,
                    !.assignments = assignments.assignments,
                    !.quizzes = quizzes.quizzes],
     report |-> ParseReport(
          Len(pages.pages) + Len(pptx.pages) + Len(orphaned.pages),
          Len(assignments.assignments),
          Len(quizzes.quizzes),
          SumQuestions(quizzes.quizzes),
          pages.errors \o pptx.errors \o assignments.errors
              \o quizzes.errors \o quizzes.qerrors \o orphaned.errors),
     orphaned_pages |-> orphaned.pages,
     recorded |-> pages.errors \o pptx.errors \o assignments.errors
                    \o quizzes.errors \o quizzes.qerrors \o orphaned.errors
                    \o orphaned.pptx_errors]

\* Parser.parse once the manifest gave a course: every content type is parsed
\* and the course is filled in
ParseContent(course, pages, pptx, assignments, quizzes, orphaned) ==
    [course |-> [course EXCEPT
                    !.pages = pages.pages \o pptx.pages \o orphaned.pages,
                    !.assignments = assignments.assignments,
                    !.quizzes = quizzes.quizzes],
     report |-> ParseReport(
          Len(pages.pages) + Len(pptx.pages) + Len(orphaned.pages),
          Len(assignments.assignments),
          Len(quizzes.quizzes),
          SumQuestions(quizzes.quizzes),
          pages.errors \o pptx.errors \o assignments.errors
              \o quizzes.errors \o quizzes.qerrors \o orphaned.errors),
     orphaned_pages |-> orphaned.pages,
     recorded |-> pages.errors \o pptx.errors \o assignments.errors
                    \o quizzes.errors \o quizzes.qerrors \o orphaned.errors
                    \o orphaned.pptx_errors]

ParseCourse(d, reverse, course) ==
    ParseContent(course,
                 parse_all_pages(d, reverse),
                 IF DOMAIN course.resources # {}
                 THEN ParsePptxResources(d, course, course.resource_order)
                 ELSE [pages |-> <<>>, errors |-> <<>>],
                 find_all_assignments(d, reverse),
                 find_all_quizzes(d, reverse),
                 process_all_orphaned_content(d, ReferencedFiles(course), reverse))

ParseManifest(d, reverse, manifest) ==
    IF manifest.course = NoCourse
    THEN [course |-> NoCourse,
          report |-> ParseReport(0, 0, 0, 0, manifest.errors),
          orphaned_pages |-> <<>>,
          recorded |-> manifest.errors]
    ELSE [ParseCourse(d, reverse, manifest.course) EXCEPT !.recorded = manifest.errors \o @]

\* Parser.parse: the course (or None), the parse report, the pages the orphan
\* handler recovered, and (recorded) the errors lists of all its parsers
Parser_parse(d, reverse) == ParseManifest(d, reverse, ManifestParser_parse(d))

-----------------------------------------------------------------------------
(* stages/validator.py *)

ValidationReport(passed, errors, orphaned_files, missing_file_list) ==
    [passed |-> passed, errors |-> errors, orphaned_files |-> orphaned_files,
     missing_file_list |-> missing_file_list]

\* Path.parts of a relative path
RECURSIVE Parts(_)
Parts(p) ==
    IF \E i \in DOMAIN p : p[i] = "/"
    THEN <<FirstComponent(p)>> \o Parts(SubSeq(p, Len(FirstComponent(p)) + 2, Len(p)))
    ELSE <<p>>

\* find_files_recursive(course_directory, "*", ["tutor_lms_output", ".git"])
find_files_recursive(d) ==
    {f \in DOMAIN d : \A i \in DOMAIN Parts(f) :
        Parts(f)[i] \notin {SKIPPED_OUTPUT_NAME, <<".", "git">>}}

\* the hrefs _validate_file_references collects, in document order: it looks
\* for resource elements without a namespace only
ReferencedHrefs(root) ==
    IF root.namespaced THEN <<>>
    ELSE Flatten([i \in DOMAIN root.resources |->
            (IF Truthy(root.resources[i].href) THEN <<root.resources[i].href>> ELSE <<>>)
            \o SelectSeq(root.resources[i].files, Truthy)])

_validate_file_references(d, root) ==
    LET hrefs == ReferencedHrefs(root)
        missing == SelectSeq(hrefs, LAMBDA href : href \notin DOMAIN d)
    IN  [referenced_files |-> Range(hrefs),
         missing_file_list |-> missing,
         errors |-> [i \in DOMAIN missing |->
                        MigrationError(WARNING, "MISSING_REFERENCED_FILE", AbsPath(missing[i]), None, None)]]

_detect_orphaned_content(all_files, referenced_files, reverse) ==
    LET orphaned == Listing({file_path \in all_files \ referenced_files :
                                /\ PathName(file_path) \notin SYSTEM_XML_FILES
                                /\ ~IsSubstring(SKIPPED_OUTPUT_NAME, file_path)},
                            reverse)
    IN  [orphaned_files |-> orphaned,
         errors |-> [i \in DOMAIN orphaned |->
                        MigrationError(INFO, "ORPHANED_CONTENT", orphaned[i], None, None)]]

\* Validator.validate.  The course directory exists: MigrationPipeline.__init__
\* has created the output directory below it.  A report returned by one of the
\* early returns carries no diagnostics (report.errors is assigned at the end).
Validator_validate(d, reverse) ==
    IF MANIFEST \notin DOMAIN d
    THEN ValidationReport(FALSE, <<>>, <<>>, <<>>)
    ELSE IF ~d[MANIFEST].wellformed
    THEN ValidationReport(FALSE, <<>>, <<>>, <<>>)
    ELSE IF ~d[MANIFEST].root_is_manifest
    THEN ValidationReport(FALSE, <<>>, <<>>, <<>>)
    ELSE LET refs == _validate_file_references(d, d[MANIFEST])
             orphans == _detect_orphaned_content(find_files_recursive(d), refs.referenced_files, reverse)
             errors == refs.errors \o orphans.errors
         IN  ValidationReport(\A i \in DOMAIN errors : errors[i].severity # CRITICAL,
                              errors, orphans.orphaned_files, refs.missing_file_list)

\* Validator.errors after validate(): the diagnostics the validator appended
Validator_errors(d, reverse) ==
    IF MANIFEST \notin DOMAIN d
    THEN <<MigrationError(CRITICAL, "MISSING_REQUIRED_FILE", AbsPath(MANIFEST), None, None)>>
    ELSE IF ~d[MANIFEST].wellformed
    THEN <<MigrationError(CRITICAL, "MANIFEST_PARSE_ERROR", AbsPath(MANIFEST), None, None)>>
    ELSE IF ~d[MANIFEST].root_is_manifest
    THEN <<MigrationError(ERROR, "INVALID_MANIFEST_SCHEMA", AbsPath(MANIFEST), None, None)>>
    ELSE Validator_validate(d, reverse).errors

-----------------------------------------------------------------------------
(* utils/html_utils.py: rewrite_canvas_asset_paths *)

\* the two spellings of the IMS-CC file base placeholder
FILEBASE_RAW == "$IMS-CC-FILEBASE$"
FILEBASE_ENCODED == "%24IMS-CC-FILEBASE%24"

\* the characters the class [^"')\s] excludes
PathDelimiters == {"\"", "'", ")"} \cup Whitespace

\* length of the longest prefix of s without a delimiter
RECURSIVE RunLength(_)
RunLength(s) ==
    IF s = <<>> \/ Head(s) \in PathDelimiters THEN 0 ELSE 1 + RunLength(Tail(s))

\* re.sub(placeholder + r'/([^"\')\s]+)', base_path + r'\1', content): the
\* non-overlapping matches from left to right, for a replacement template
\* that expands to base_path and group 1.
RECURSIVE SubPlaceholder(_, _, _)
SubPlaceholder(placeholder, base_path, content) ==
    IF content = <<>> THEN <<>>
    ELSE IF /\ Len(content) >= 3
            /\ content[1] = placeholder
            /\ content[2] = "/"
            /\ RunLength(SubSeq(content, 3, Len(content))) >= 1
    THEN LET n == RunLength(SubSeq(content, 3, Len(content)))
         IN  base_path \o SubSeq(content, 3, 2 + n)
                \o SubPlaceholder(placeholder, base_path, SubSeq(content, 3 + n, Len(content)))
    ELSE <<Head(content)>> \o SubPlaceholder(placeholder, base_path, Tail(content))

\* the words of the model that start with a letter which is no escape
\* sequence of a replacement template
NoEscapeWords == {"web_resources"}

\* the replacement template rf'{base_path}\1' holds a backslash before such a
\* letter: re.sub raises re.error("bad escape")
BadEscape(base_path) ==
    \E i \in 1..(Len(base_path) - 1) : base_path[i] = "\\" /\ base_path[i + 1] \in NoEscapeWords

\* the call raises re.error instead of returning
RE_ERROR == <<"<re.error>">>

rewrite_canvas_asset_paths_RawOnly(content, base_path) ==
    IF ~Truthy(content) THEN <<>>
    ELSE IF BadEscape(base_path) THEN RE_ERROR
    ELSE SubPlaceholder(FILEBASE_RAW, base_path, content)

rewrite_canvas_asset_paths(content, base_path) ==
    IF ~Truthy(content) THEN <<>>
    ELSE IF BadEscape(base_path) THEN RE_ERROR
    ELSE SubPlaceholder(FILEBASE_ENCODED, base_path,
            SubPlaceholder(FILEBASE_RAW, base_path, content))

-----------------------------------------------------------------------------
(* config/tutor_schemas.py, models/tutor_models.py *)

TutorQuestionType ==
    {"multiple_choice", "true_false", "fill_in_the_blank", "open_ended", "short_answer",
     "matching", "image_matching", "image_answering", "ordering"}

QUESTION_TYPE_MAPPING_AllOpenEnded(canvas_type) == "open_ended"

\* QUESTION_TYPE_MAPPING.get(canvas_type); "None" is Python's None, the
\* value of text_only_question and of a type that is no key
QUESTION_TYPE_MAPPING(canvas_type) ==
    CASE canvas_type = MULTIPLE_CHOICE -> "multiple_choice"
      [] canvas_type = TRUE_FALSE -> "true_false"
      [] canvas_type = ESSAY -> "open_ended"
      [] canvas_type = SHORT_ANSWER -> "short_answer"
      [] canvas_type = FILL_IN_BLANK -> "fill_in_the_blank"
      [] canvas_type = MATCHING -> "matching"
      [] canvas_type = NUMERICAL -> "short_answer"
      [] canvas_type = CALCULATED -> "open_ended"
      [] canvas_type = MULTIPLE_ANSWERS -> "multiple_choice"
      [] canvas_type = FILE_UPLOAD -> "open_ended"
      [] canvas_type = TEXT_ONLY -> "None"
      [] canvas_type = MULTIPLE_DROPDOWNS -> "multiple_choice"
      [] canvas_type = FORMULA -> "open_ended"
      [] canvas_type = CATEGORIZATION -> "matching"
      [] canvas_type = ORDERING -> "ordering"
      [] OTHER -> "None"

CANVAS_TO_WP_STATUS_AlwaysPublish(state) == "publish"

\* CANVAS_TO_WP_STATUS.get(state, 'publish')
CANVAS_TO_WP_STATUS(state) ==
    CASE state = ACTIVE -> "publish"
      [] state = UNPUBLISHED -> "draft"
      [] state = DELETED -> "trash"
      [] OTHER -> "publish"

TutorQuestionAnswer(answer_title, is_correct, answer_order) ==
    [answer_title |-> answer_title, is_correct |-> is_correct, answer_order |-> answer_order]

TutorQuestion(question_title, question_description, question_type, question_mark, question_order, source_canvas_id, answers) ==
    [question_title |-> question_title, question_description |-> question_description,
     question_type |-> question_type, question_mark |-> question_mark,
     question_order |-> question_order, source_canvas_id |-> source_canvas_id,
     answers |-> answers]

TutorQuiz(post_title, post_content, post_status, quiz_option, menu_order, source_canvas_id, questions) ==
    [post_title |-> post_title, post_content |-> post_content, post_status |-> post_status,
     quiz_option |-> quiz_option, menu_order |-> menu_order,
     source_canvas_id |-> source_canvas_id, questions |-> questions]

TutorLesson(post_title, post_content, post_status, menu_order, source_canvas_id) ==
    [post_title |-> post_title, post_content |-> post_content, post_status |-> post_status,
     menu_order |-> menu_order, source_canvas_id |-> source_canvas_id]

TutorAssignment(post_title, post_content, post_status, assignment_option, menu_order, source_canvas_id) ==
    [post_title |-> post_title, post_content |-> post_content, post_status |-> post_status,
     assignment_option |-> assignment_option, menu_order |-> menu_order,
     source_canvas_id |-> source_canvas_id]

TutorTopic(topic_title, topic_order, source_canvas_id, lessons, quizzes, assignments) ==
    [topic_title |-> topic_title, topic_order |-> topic_order,
     source_canvas_id |-> source_canvas_id, lessons |-> lessons, quizzes |-> quizzes,
     assignments |-> assignments]

TutorCourse(post_title, post_status, source_canvas_course_id, topics) ==
    [post_title |-> post_title, post_status |-> post_status,
     source_canvas_course_id |-> source_canvas_course_id, topics |-> topics]

\* sum(len(x) for x in lists) and sum(ns)
RECURSIVE SumOfLens(_)
SumOfLens(lists) == IF lists = <<>> THEN 0 ELSE Len(Head(lists)) + SumOfLens(Tail(lists))

RECURSIVE Sum(_)
Sum(ns) == IF ns = <<>> THEN 0 ELSE Head(ns) + Sum(Tail(ns))

\* TutorCourse.get_content_counts; standalone_quizzes keeps its default, the
\* empty list: nothing adds to it
get_content_counts(course) ==
    [topics |-> Len(course.topics),
     lessons |-> SumOfLens([i \in DOMAIN course.topics |-> course.topics[i].lessons]),
     quizzes |-> SumOfLens([i \in DOMAIN course.topics |-> course.topics[i].quizzes]) + Len(<<>>),
     assignments |-> SumOfLens([i \in DOMAIN course.topics |-> course.topics[i].assignments]),
     questions |-> Sum([i \in DOMAIN course.topics |->
                          SumOfLens([j \in DOMAIN course.topics[i].quizzes |->
                                        course.topics[i].quizzes[j].questions])])
                   + SumOfLens(<<>>)]

NoTutorCourse == [none |-> TRUE]

TransformationReport(topics_created, lessons_created, quizzes_created, assignments_created, questions_created, question_type_mappings, errors) ==
    [topics_created |-> topics_created, lessons_created |-> lessons_created,
     quizzes_created |-> quizzes_created, assignments_created |-> assignments_created,
     questions_created |-> questions_created,
     question_type_mappings |-> question_type_mappings,
     unsupported_question_types |-> <<>>, errors |-> errors]

-----------------------------------------------------------------------------
(* transformers/course_transformer.py *)

ASSETS_BASE == <<"..", "/", "..", "/", "assets", "/">>

\* the mutable fields of CourseTransformer
TransformerInit ==
    [errors |-> <<>>, question_type_counts |-> <<>>, processed_assignments |-> {}]

CountType_Overwrite(counts, canvas_type) ==
    [t \in DOMAIN counts \cup {canvas_type} |-> IF t = canvas_type THEN 1 ELSE counts[t]]

\* question_type_counts is a dict: a function on the types seen so far.
\* counts[t] = counts.get(t, 0) + 1
CountType(counts, canvas_type) ==
    IF canvas_type \in DOMAIN counts
    THEN [counts EXCEPT ![canvas_type] = @ + 1]
    ELSE [t \in DOMAIN counts \cup {canvas_type} |->
            IF t = canvas_type THEN 1 ELSE counts[t]]

IsCorrect_AnyWeight(weight) == weight > 0

\* is_correct of an answer
IsCorrect(weight) == weight >= 100

TransformAnswers_Unordered(answers) ==
    [i \in DOMAIN answers |->
        TutorQuestionAnswer(rewrite_canvas_asset_paths(answers[i].text, ASSETS_BASE),
                            IsCorrect(answers[i].weight),
                            0)]

\* the answers of _transform_question
TransformAnswers(answers) ==
    [i \in DOMAIN answers |->
        TutorQuestionAnswer(rewrite_canvas_asset_paths(answers[i].text, ASSETS_BASE),
                            IsCorrect(answers[i].weight),
                            i - 1)]

\* _transform_question(question, order) on transformer state st: the emitted
\* question (<<>> for None) and the new state
_transform_question(question, order, st) ==
    LET canvas_type == question.question_type
        tutor_type_str == QUESTION_TYPE_MAPPING(canvas_type)
        counted == [st EXCEPT !.question_type_counts = CountType(@, canvas_type)]
    IN  IF tutor_type_str = "None"
        THEN [out |-> <<>>,
              st |-> [counted EXCEPT !.errors = Append(@,
                         MigrationError(WARNING, "UNSUPPORTED_QUESTION_TYPE", None,
                                        <<"question">>, question.identifier))]]
        ELSE LET valid == tutor_type_str \in TutorQuestionType
                 tutor_type == IF valid THEN tutor_type_str ELSE "open_ended"
             IN  [out |-> <<TutorQuestion(
                                question.title,
                                rewrite_canvas_asset_paths(question.question_text, ASSETS_BASE),
                                tutor_type,
                                question.points_possible,
                                order,
                                question.identifier,
                                TransformAnswers(question.answers))>>,
                  st |-> IF valid THEN counted
                         ELSE [counted EXCEPT !.errors = Append(@,
                                  MigrationError(WARNING, "QUESTION_TYPE_FALLBACK", None,
                                                 <<"question">>, question.identifier))]]

\* the loop "for position, question in enumerate(quiz.questions)" from
\* index position (1-based) on
RECURSIVE TransformQuestions(_, _, _)
TransformQuestions(questions, position, st) ==
    IF position > Len(questions) THEN [out |-> <<>>, st |-> st]
    ELSE LET first == _transform_question(questions[position], position - 1, st)
             rest == TransformQuestions(questions, position + 1, first.st)
         IN  [out |-> first.out \o rest.out, st |-> rest.st]

_transform_quiz(quiz, order, st) ==
    LET questions == TransformQuestions(quiz.questions, 1, st)
    IN  [out |-> TutorQuiz(quiz.title,
                           rewrite_canvas_asset_paths(quiz.description, ASSETS_BASE),
                           CANVAS_TO_WP_STATUS(quiz.workflow_state),
                           [time_limit |-> quiz.time_limit,
                            attempts_allowed |-> quiz.allowed_attempts],
                           order,
                           quiz.identifier,
                           questions.out),
         st |-> questions.st]

_transform_page_to_lesson(page, order) ==
    TutorLesson(page.title,
                rewrite_canvas_asset_paths(page.body, ASSETS_BASE),
                CANVAS_TO_WP_STATUS(page.workflow_state),
                order,
                page.identifier)

_transform_assignment_NotProcessed(assignment, order, st) ==
    [out |-> TutorAssignment(assignment.title,
                             rewrite_canvas_asset_paths(assignment.description, ASSETS_BASE),
                             CANVAS_TO_WP_STATUS(assignment.workflow_state),
                             [total_mark |-> assignment.points_possible,
                              pass_mark |-> assignment.points_possible * 6],
                             order,
                             assignment.identifier),
     st |-> st]

\* pass_mark is 60% of the points, kept in tenths of a point
_transform_assignment(assignment, order, st) ==
    [out |-> TutorAssignment(assignment.title,
                             rewrite_canvas_asset_paths(assignment.description, ASSETS_BASE),
                             CANVAS_TO_WP_STATUS(assignment.workflow_state),
                             [total_mark |-> assignment.points_possible,
                              pass_mark |-> assignment.points_possible * 6],
                             order,
                             assignment.identifier),
     st |-> [st EXCEPT !.processed_assignments = @ \cup {assignment.identifier}]]

\* the first element of the sequence that satisfies Match, as <<element>>,
\* or <<>> (None)
FirstMatch(seq, Match(_)) ==
    IF \E i \in DOMAIN seq : Match(seq[i])
    THEN <<seq[CHOOSE i \in DOMAIN seq : Match(seq[i]) /\ \A j \in 1..(i - 1) : ~Match(seq[j])]>>
    ELSE <<>>

_find_page(course, item) ==
    FirstMatch(course.pages, LAMBDA page :
        \/ page.identifier = item.identifier
        \/ /\ Truthy(item.content_file)
           /\ Truthy(page.source_file)
           /\ IsSubstring(Lower(Replace(item.content_file, "/", "\\")),
                          Lower(Replace(page.source_file, "/", "\\"))))

_find_quiz(course, item) ==
    FirstMatch(course.quizzes, LAMBDA quiz :
        \/ quiz.identifier = item.identifier
        \/ /\ Truthy(item.content_file)
           /\ Truthy(quiz.source_file)
           /\ IsSubstring(item.content_file, quiz.source_file))

_find_assignment(course, item) ==
    FirstMatch(course.assignments, LAMBDA assignment :
        \/ assignment.identifier = item.identifier
        \/ /\ Truthy(item.content_file)
           /\ Truthy(assignment.source_file)
           /\ IsSubstring(item.content_file, assignment.source_file))

\* one iteration of the loop over module.items in _transform_module_to_topic
TransformItem(item, course, acc) ==
    CASE item.content_type = "page" ->
            LET page == _find_page(course, item)
            IN  IF page = <<>> THEN acc
                ELSE [acc EXCEPT !.topic.lessons =
                        Append(@, _transform_page_to_lesson(page[1], item.position))]
      [] item.content_type = "quiz" ->
            LET quiz == _find_quiz(course, item)
                tutor_quiz == _transform_quiz(quiz[1], item.position, acc.st)
            IN  IF quiz = <<>> THEN acc
                ELSE [topic |-> [acc.topic EXCEPT !.quizzes = Append(@, tutor_quiz.out)],
                      st |-> tutor_quiz.st]
      [] item.content_type = "assignment" ->
            LET assignment == _find_assignment(course, item)
                tutor_assignment == _transform_assignment(assignment[1], item.position, acc.st)
            IN  IF assignment = <<>> THEN acc
                ELSE [topic |-> [acc.topic EXCEPT !.assignments = Append(@, tutor_assignment.out)],
                      st |-> tutor_assignment.st]
      [] OTHER -> acc

RECURSIVE TransformItems(_, _, _)
TransformItems(items, course, acc) ==
    IF items = <<>> THEN acc
    ELSE TransformItems(Tail(items), course, TransformItem(Head(items), course, acc))

_transform_module_to_topic(module, course, st) ==
    TransformItems(module.items, course,
        [topic |-> TutorTopic(module.title, module.position, module.identifier, <<>>, <<>>, <<>>),
         st |-> st])

\* the loop over canvas_course.modules in transform
RECURSIVE TransformModules(_, _, _)
TransformModules(modules, course, st) ==
    IF modules = <<>> THEN [topics |-> <<>>, st |-> st]
    ELSE LET first == _transform_module_to_topic(Head(modules), course, st)
             rest == TransformModules(Tail(modules), course, first.st)
         IN  [topics |-> <<first.topic>> \o rest.topics, st |-> rest.st]

\* the loop "for i, assignment in enumerate(orphaned_assignments)"
RECURSIVE TransformOrphanedAssignments(_, _, _)
TransformOrphanedAssignments(assignments, i, st) ==
    IF i > Len(assignments) THEN [out |-> <<>>, st |-> st]
    ELSE LET first == _transform_assignment(assignments[i], i - 1, st)
             rest == TransformOrphanedAssignments(assignments, i + 1, first.st)
         IN  [out |-> <<first.out>> \o rest.out, st |-> rest.st]

\* the quizzes of the topics in the place of their questions
AllQuestions_OnePerQuiz(topics) == Flatten([i \in DOMAIN topics |-> topics[i].quizzes])

\* all lessons, quizzes, assignments of the topics and all questions of
\* their quizzes, in order
AllLessons(topics) == Flatten([i \in DOMAIN topics |-> topics[i].lessons])

AllQuizzes(topics) == Flatten([i \in DOMAIN topics |-> topics[i].quizzes])

AllAssignments(topics) == Flatten([i \in DOMAIN topics |-> topics[i].assignments])

AllQuestions(topics) ==
    Flatten([i \in DOMAIN AllQuizzes(topics) |-> AllQuizzes(topics)[i].questions])

\* CourseTransformer().transform(canvas_course): a fresh transformer
transform(course) ==
    With(TransformModules(course.modules, course, TransformerInit), LAMBDA modules :
    With(SelectSeq(course.assignments,
                   LAMBDA a : a.identifier \notin modules.st.processed_assignments),
         LAMBDA orphaned_assignments :
    With(IF orphaned_assignments # <<>>
         THEN With(TransformOrphanedAssignments(orphaned_assignments, 1, modules.st),
                   LAMBDA orphans :
                   [topics |-> Append(modules.topics,
                                      TutorTopic(<<"Assignments">>, Len(modules.topics) + 1,
                                                 <<"orphaned_assignments_topic">>,
                                                 <<>>, <<>>, orphans.out)),
                    st |-> orphans.st])
         ELSE modules,
         LAMBDA done :
    [tutor_course |-> TutorCourse(course.title, CANVAS_TO_WP_STATUS(course.workflow_state),
                                  course.identifier, done.topics),
     report |-> TransformationReport(
                    Len(done.topics),
                    Len(AllLessons(done.topics)),
                    Len(AllQuizzes(done.topics)),
                    Len(AllAssignments(done.topics)),
                    Len(AllQuestions(done.topics)),
                    done.st.question_type_counts,
                    done.st.errors)])))

-----------------------------------------------------------------------------
(* exporters/tutor_exporter.py, exporters/report_generator.py *)

\* Canvas_Converter.py: the default output directory, below the course directory
OUTPUT_DIR == <<"lms", "_", "output">>

Separators == {"/", "\\", ".", "_", " ", "-", "\n", "\"", "'", ")", "(", "<p>", "</p>"}

\* re.sub(r'[^a-zA-Z0-9]', '_', title).lower(); the words of a title are
\* alphanumeric
SafeTitle(title) == Lower([i \in DOMAIN title |-> IF title[i] \in Separators THEN "_" ELSE title[i]])

Digits == <<"0", "1", "2", "3", "4", "5", "6", "7", "8", "9">>

\* str(n) for a small natural number
IntStr(n) == <<Digits[n + 1]>>

HtmlDoc(body) == [kind |-> "html", wellformed |-> TRUE, body |-> body]

DataDoc(kind) == [kind |-> kind, wellformed |-> TRUE, body |-> <<>>]

wrap_in_html_document(title, content) ==
    <<"<!DOCTYPE html>", "\n">> \o title \o <<"\n">> \o content

\* the directory of a topic below lessons/
TopicDir(topic) ==
    PathJoin(PathJoin(OUTPUT_DIR, <<"lessons">>),
             <<"module", "_">> \o IntStr(topic.topic_order) \o <<"_">> \o SafeTitle(topic.topic_title))

\* the HTML files _export_html_content writes for one topic: path and document
TopicFiles(topic) ==
    {<<PathJoin(TopicDir(topic),
                IntStr(topic.lessons[i].menu_order) \o <<"_">>
                    \o SafeTitle(topic.lessons[i].post_title) \o <<".", "html">>),
       HtmlDoc(wrap_in_html_document(topic.lessons[i].post_title, topic.lessons[i].post_content))>>
        : i \in DOMAIN topic.lessons}
    \cup
    {<<PathJoin(TopicDir(topic),
                <<"quiz", "_">> \o IntStr(topic.quizzes[i].menu_order) \o <<"_">>
                    \o SafeTitle(topic.quizzes[i].post_title) \o <<".", "html">>),
       HtmlDoc(wrap_in_html_document(topic.quizzes[i].post_title, topic.quizzes[i].post_content))>>
        : i \in DOMAIN topic.quizzes}
    \cup
    {<<PathJoin(TopicDir(topic),
                <<"assign", "_">> \o IntStr(topic.assignments[i].menu_order) \o <<"_">>
                    \o SafeTitle(topic.assignments[i].post_title) \o <<".", "html">>),
       HtmlDoc(wrap_in_html_document(topic.assignments[i].post_title,
                                     topic.assignments[i].post_content))>>
        : i \in DOMAIN topic.assignments}

_export_html_content(course) == UNION {TopicFiles(course.topics[i]) : i \in DOMAIN course.topics}

WEB_RESOURCES == <<"web_resources">>

\* _copy_assets: web_resources/ is copied to <output>/assets/
_copy_assets(d) ==
    {<<PathJoin(PathJoin(OUTPUT_DIR, <<"assets">>), SubSeq(f, Len(WEB_RESOURCES) + 2, Len(f))), d[f]>>
        : f \in {g \in DOMAIN d : StartsWith(g, WEB_RESOURCES \o <<"/">>)}}

\* the disk after writing the files of the set written (pairs of path and
\* document); a file written twice keeps one of the documents
WriteFiles(d, written) ==
    LET paths == {w[1] : w \in written}
    IN  [f \in DOMAIN d \cup paths |->
            IF f \in paths THEN (CHOOSE w \in written : w[1] = f)[2] ELSE d[f]]

\* TutorExporter.export: the disk afterwards
TutorExporter_export(d, course) ==
    LET assets_dir == PathJoin(OUTPUT_DIR, <<"assets">>) \o <<"/">>
        cleared == IF IsDir(d, WEB_RESOURCES)
                   THEN [f \in {g \in DOMAIN d : ~StartsWith(g, assets_dir)} |-> d[f]]
                   ELSE d
    IN  WriteFiles(cleared,
            {<<PathJoin(OUTPUT_DIR, <<"tutor", "_", "course", ".", "json">>), DataDoc("json")>>,
             <<PathJoin(OUTPUT_DIR, <<"IMPORT", "_", "INSTRUCTIONS", ".", "md">>), DataDoc("md")>>}
            \cup _copy_assets(d)
            \cup _export_html_content(course))

VerificationReport(errors) == [errors |-> errors]

\* ReportGenerator.generate: the disk afterwards
ReportGenerator_generate(d) ==
    WriteFiles(d,
        {<<PathJoin(OUTPUT_DIR, <<"migration", "_", "report", ".", "json">>), DataDoc("json")>>,
         <<PathJoin(OUTPUT_DIR, <<"migration", "_", "report", ".", "html">>),
           HtmlDoc(<<"<!DOCTYPE html>", "\n", "Migration", " ", "Report">>)>>})

-----------------------------------------------------------------------------
(* models/migration_report.py: MigrationReport *)

SUCCESS == "success"
SUCCESS_WITH_WARNINGS == "success_with_warnings"
PARTIAL_FAILURE == "partial_failure"
FAILURE == "failure"

\* a stage report that is still None
NoReport == [none |-> TRUE]

StageErrors(report) == IF report = NoReport THEN <<>> ELSE report.errors

\* all_errors with the transformation report taken before the parse report
AggregatedErrors_TransformationFirst(validation, parse, transformation, verification) ==
    StageErrors(validation) \o StageErrors(transformation) \o StageErrors(parse)
        \o StageErrors(verification)

\* aggregate_errors: all_errors; the resolution report is never set
AggregatedErrors(validation, parse, transformation, verification) ==
    StageErrors(validation) \o StageErrors(parse) \o StageErrors(transformation)
        \o StageErrors(verification)

CountSeverity(errors, severities) ==
    Cardinality({i \in DOMAIN errors : errors[i].severity \in severities})

\* aggregate_errors: status
AggregatedStatus(errors) ==
    IF CountSeverity(errors, {CRITICAL}) > 0 THEN FAILURE
    ELSE IF CountSeverity(errors, {ERROR, CRITICAL}) > 0 THEN PARTIAL_FAILURE
    ELSE IF CountSeverity(errors, {WARNING}) > 0 THEN SUCCESS_WITH_WARNINGS
    ELSE SUCCESS

-----------------------------------------------------------------------------
(* The course exports the pipeline is run on *)

\* an XML document: the text of the elements the parsers look for (None for an
\* element that is absent)
XmlDoc(title, body, text, workflow_state) ==
    [kind |-> "xml", wellformed |-> TRUE, title |-> title, body |-> body, text |-> text,
     workflow_state |-> workflow_state, identifier |-> <<>>, question_type |-> "absent",
     cardinality |-> "absent", choices |-> <<>>, correct |-> <<>>, points_possible |-> 0,
     time_limit |-> 0, allowed_attempts |-> 1]

LongBody == <<"<p>", "lesson", " ", "text", "</p>">>
AssetBody == <<"see", " ", "$IMS-CC-FILEBASE$", "/", "img", ".", "png">>
ShortBody == <<"hi">>

PageDocs == {XmlDoc(<<"Intro">>, AssetBody, None, <<"active">>),
             XmlDoc(None, None, LongBody, <<"unpublished">>),
             XmlDoc(<<"Old">>, LongBody, None, <<"deleted">>)}

OrphanXmlDocs == {XmlDoc(<<"Extra">>, LongBody, None, None),
                  XmlDoc(None, None, ShortBody, None)}

Choice(identifier, text) == [identifier |-> identifier, text |-> text]

QuestionDoc(identifier, question_type, cardinality, choices, correct) ==
    [XmlDoc(<<"Question">>, <<"what", " ", "text">>, None, None) EXCEPT
        !.identifier = identifier, !.question_type = question_type,
        !.cardinality = cardinality, !.choices = choices, !.correct = correct,
        !.points_possible = 1]

TwoChoices == <<Choice(<<"c1">>, <<"yes">>), Choice(<<"c2">>, <<"no">>)>>

\* the question files qa.xml and qb.xml of the quiz directory; an absent qb.xml
\* is the empty sequence
QuizKinds ==
    { <<QuestionDoc(<<"qa">>, "absent", "single", TwoChoices, <<<<"c1">>>>),
        <<QuestionDoc(<<"qb">>, ESSAY, "absent", <<>>, <<>>)>> >>,
      <<QuestionDoc(<<"qa">>, TEXT_ONLY, "absent", <<>>, <<>>),
        <<QuestionDoc(<<>>, MULTIPLE_CHOICE, "absent", TwoChoices, <<<<"c2">>>>)>> >>,
      <<QuestionDoc(<<"qa">>, CALCULATED, "absent", TwoChoices, <<<<"c1">>>>), <<>> >>,
      <<QuestionDoc(<<"qa">>, TEXT_ONLY, "absent", <<>>, <<>>),
        <<QuestionDoc(<<"qb">>, TEXT_ONLY, "absent", <<>>, <<>>)>> >> }

\* question files for the type rule: a type in another case, a type outside
\* the table, and response declarations with cardinality multiple, without a
\* cardinality and with another cardinality
TypeRuleKinds ==
    { <<QuestionDoc(<<"qa">>, "Multiple_Answers_Question", "single", TwoChoices, <<<<"c1">>>>),
        <<QuestionDoc(<<"qb">>, "hot_spot_question", "multiple", TwoChoices, <<<<"c1">>>>)>> >>,
      <<QuestionDoc(<<"qa">>, "absent", "multiple", TwoChoices, <<<<"c1">>, <<"c2">>>>),
        <<QuestionDoc(<<"qb">>, "absent", "unset", TwoChoices, <<<<"c2">>>>)>> >>,
      <<QuestionDoc(<<"qa">>, "absent", "ordered", TwoChoices, <<<<"c1">>>>),
        <<QuestionDoc(<<"qb">>, "absent", "absent", <<>>, <<>>)>> >> }

QuizMetaDoc == [XmlDoc(<<"Quiz", " ", "1">>, <<"quiz", " ", "text">>, None, None) EXCEPT
                    !.time_limit = 30, !.allowed_attempts = 2]

AssignmentDoc == [XmlDoc(<<"Essay">>, LongBody, None, <<"active">>) EXCEPT !.points_possible = 10]

\* the files of one export except the manifest, as a set of pairs of path and
\* document
ContentFiles(p1, o1, o2, quiz, a1) ==
    {<<P1_XML, doc>> : doc \in p1}
    \cup {<<O1_XML, doc>> : doc \in o1}
    \cup (IF o2 THEN {<<O2_HTML, HtmlDoc(LongBody)>>} ELSE {})
    \cup UNION {{<<Q1_META, QuizMetaDoc>>, <<Q1_QA, k[1]>>} \cup
                {<<Q1_QB, k[2][i]>> : i \in DOMAIN k[2]} : k \in quiz}
    \cup (IF a1 THEN {<<A1_SETTINGS, AssignmentDoc>>} ELSE {})

\* resource and item elements of the manifest
ResourceElem(identifier, href, type) ==
    [identifier |-> identifier, href |-> href, type |-> type, files |-> <<href>>]

ItemElem(identifier, identifierref, title, items) ==
    [identifier |-> identifier, identifierref |-> identifierref, title |-> title, items |-> items]

R_P1 == ResourceElem(<<"r_p1">>, P1_XML, <<"webcontent">>)
R_Q1 == ResourceElem(<<"r_q1">>, Q1_META, <<"imsqti_xmlv1p2", "/", "imscc_xmlv1p1", "/", "assessment">>)
R_A1 == ResourceElem(<<"r_a1">>, A1_SETTINGS, <<"associatedcontent", "/", "imscc_xmlv1p1", "/", "learning-application-resource">>)
R_O1 == ResourceElem(<<"r_o1">>, O1_XML, <<"webcontent">>)

I_P1 == ItemElem(<<"i_p1">>, <<"r_p1">>, <<"Intro">>, <<>>)
I_Q1 == ItemElem(<<"i_q1">>, <<"r_q1">>, <<"Quiz", " ", "1">>, <<>>)
I_A1 == ItemElem(<<"i_a1">>, <<"r_a1">>, <<"Essay">>, <<>>)
\* a second item for the same assignment: Canvas lets an assignment be added
\* to several modules
I_A1_AGAIN == ItemElem(<<"i_a1b">>, <<"r_a1">>, <<"Essay", " ", "again">>, <<>>)

ResourceLists == { <<>>, <<R_P1, R_Q1, R_A1>>, <<R_P1, R_Q1, R_A1, R_O1>> }

\* the item lists of the first module
ItemLists ==
    { <<>>, <<I_P1>>, <<I_P1, I_Q1>>, <<I_Q1, I_P1>>, <<I_A1>>, <<I_Q1, I_A1>>, <<I_A1, I_A1_AGAIN>> }

ModuleElem(identifier, title, items) == ItemElem(identifier, <<>>, title, items)

M1(items) == ModuleElem(<<"m1">>, <<"Week", " ", "1">>, items)
M2 == ModuleElem(<<"m2">>, <<"Week", " ", "2">>, <<I_Q1>>)
M3 == ModuleElem(<<"m3">>, <<"Week", " ", "3">>, <<I_A1_AGAIN>>)

\* the modules an organization declares
ModuleLists == {<<M1(items)>> : items \in ItemLists} \cup {<<M1(<<I_P1>>), M2>>, <<M1(<<>>), M2>>, <<M1(<<I_A1>>), M3>>}

\* Canvas wraps the modules of a course in one root item
Wrapped(modules) == <<ItemElem(<<"LearningModules">>, <<>>, <<>>, modules)>>

ManifestDoc(namespaced, resources, has_organization, items) ==
    [kind |-> "manifest", wellformed |-> TRUE, root_is_manifest |-> TRUE,
     namespaced |-> namespaced, title |-> <<"CS", " ", "1143">>, identifier |-> <<"cs1143">>,
     resources |-> resources, has_organization |-> has_organization, items |-> items]

Manifests ==
    {ManifestDoc(ns, res, FALSE, <<>>) : ns \in BOOLEAN, res \in ResourceLists}
    \cup {ManifestDoc(ns, res, TRUE, Wrapped(mods)) :
            ns \in BOOLEAN, res \in ResourceLists, mods \in ModuleLists}
    \cup {ManifestDoc(ns, res, TRUE, mods) :
            ns \in BOOLEAN, res \in ResourceLists, mods \in ModuleLists}

\* manifests the validator or the manifest parser rejects
BrokenManifests ==
    { [ManifestDoc(FALSE, <<>>, FALSE, <<>>) EXCEPT !.wellformed = FALSE],
      [ManifestDoc(FALSE, <<R_P1>>, FALSE, <<>>) EXCEPT !.root_is_manifest = FALSE] }

\* the disk that holds the files of the set files
DiskOf(files) == [f \in {w[1] : w \in files} |-> (CHOOSE w \in files : w[1] = f)[2]]

\* the export in which Canvas's root item wraps one module with a page item
\* and a quiz item, the same module declared directly, and an export without
\* organization
WrappedManifest == ManifestDoc(TRUE, <<R_P1, R_Q1, R_A1>>, TRUE, Wrapped(<<M1(<<I_P1, I_Q1>>)>>))
FlatManifest == ManifestDoc(FALSE, <<R_P1, R_Q1, R_A1>>, TRUE, <<M1(<<I_P1, I_Q1>>)>>)
BareManifest == ManifestDoc(FALSE, <<>>, FALSE, <<>>)

\* an export whose module item for the page p1.xml carries the identifier
\* "p2", the file stem (and so the parsed identifier) of the page p2.xml
I_P2_FOR_P1 == ItemElem(<<"p2">>, <<"r_p1">>, <<"Second">>, <<>>)
CrossManifest == ManifestDoc(FALSE, <<R_P1>>, TRUE, <<M1(<<I_P2_FOR_P1>>), M2>>)
SecondPage == XmlDoc(<<"Second">>, LongBody, None, <<"active">>)

\* an export whose manifest spells the hrefs of the page and of the quiz in
\* another letter case than the files on disk
R_P1_CASE == ResourceElem(<<"r_p1">>, <<"wiki_content", "/", "P1", ".", "xml">>, <<"webcontent">>)
R_Q1_CASE == ResourceElem(<<"r_q1">>, <<"q1", "/", "Assessment", "_", "Meta", ".", "xml">>, <<"imsqti_xmlv1p2", "/", "imscc_xmlv1p1", "/", "assessment">>)
CaseManifest == ManifestDoc(FALSE, <<R_P1_CASE, R_Q1_CASE>>, TRUE, Wrapped(<<M1(<<I_P1, I_Q1>>)>>))

\* an export whose second module holds a sub-header item with the page item
\* below it: the page item lies at depth three of the organization
I_UNIT(items) == ItemElem(<<"i_unit">>, <<>>, <<"Unit", " ", "1">>, items)
M4 == ModuleElem(<<"m4">>, <<"Week", " ", "4">>, <<I_UNIT(<<I_P1>>), I_A1>>)
NestedManifest == ManifestDoc(FALSE, <<R_P1, R_Q1, R_A1>>, TRUE, <<M1(<<I_Q1>>), M4>>)

\* an export whose single top-level item is bound to a resource and has a
\* module below it
I_BOUND(items) == ItemElem(<<"i_home">>, <<"r_p1">>, <<"Intro">>, items)
BoundTopManifest == ManifestDoc(FALSE, <<R_P1, R_Q1, R_A1>>, TRUE, <<I_BOUND(<<M1(<<I_Q1>>)>>)>>)

\* a page file that is no well-formed XML
MalformedPage == [XmlDoc(None, None, None, None) EXCEPT !.wellformed = FALSE]

IntroPage == XmlDoc(<<"Intro">>, AssetBody, None, <<"active">>)
ChoiceAndEssay ==
    <<QuestionDoc(<<"qa">>, "absent", "single", TwoChoices, <<<<"c1">>>>),
      <<QuestionDoc(<<"qb">>, ESSAY, "absent", <<>>, <<>>)>> >>

\* the content files every manifest is put over
FullContent ==
    ContentFiles({IntroPage}, {XmlDoc(<<"Extra">>, LongBody, None, None)}, TRUE,
                 {ChoiceAndEssay}, TRUE)

Absent == {{}}

\* the course directories and the directory orders of the runs: every
\* manifest over the full content, every content under the wrapped manifest,
\* and a choice of contents under the other manifests and in reverse order
Inputs ==
    {<<DiskOf({<<MANIFEST, m>>} \cup FullContent), FALSE>> : m \in Manifests}
    \cup
    {<<DiskOf({<<MANIFEST, WrappedManifest>>} \cup ContentFiles(p1, o1, o2, quiz, a1)), FALSE>> :
        p1 \in Absent \cup {{doc} : doc \in PageDocs},
        o1 \in Absent \cup {{doc} : doc \in OrphanXmlDocs},
        o2 \in BOOLEAN,
        quiz \in Absent \cup {{k} : k \in QuizKinds},
        a1 \in BOOLEAN}
    \cup
    {<<DiskOf({<<MANIFEST, m>>} \cup ContentFiles(p1, o1, o2, quiz, a1)), FALSE>> :
        m \in {FlatManifest, BareManifest},
        p1 \in Absent \cup {{IntroPage}},
        o1 \in Absent \cup {{doc} : doc \in OrphanXmlDocs},
        o2 \in BOOLEAN,
        quiz \in Absent \cup {{ChoiceAndEssay}},
        a1 \in BOOLEAN}
    \cup
    {<<DiskOf({<<MANIFEST, WrappedManifest>>} \cup ContentFiles({IntroPage}, o1, o2, {k}, FALSE)), TRUE>> :
        o1 \in Absent \cup {{doc} : doc \in OrphanXmlDocs},
        o2 \in BOOLEAN,
        k \in QuizKinds}
    \cup {<<DiskOf({<<MANIFEST, m>>} \cup ContentFiles({}, {}, FALSE, {}, a1)), FALSE>> :
            m \in BrokenManifests, a1 \in BOOLEAN}
    \cup {<<DiskOf(ContentFiles({doc}, {}, FALSE, {}, FALSE)), FALSE>> : doc \in PageDocs}
    \cup {<<DiskOf({<<MANIFEST, CrossManifest>>, <<P1_XML, IntroPage>>, <<P2_XML, SecondPage>>}), reverse>> :
            reverse \in BOOLEAN}
    \cup {<<DiskOf({<<MANIFEST, m>>} \cup FullContent), FALSE>> : m \in {CaseManifest, NestedManifest, BoundTopManifest}}
    \cup {<<DiskOf({<<MANIFEST, FlatManifest>>, <<P1_XML, MalformedPage>>, <<P2_XML, SecondPage>>}), FALSE>>}
    \cup {<<DiskOf({<<MANIFEST, WrappedManifest>>, <<P1_XML, MalformedPage>>, <<P2_XML, SecondPage>>}
                    \cup ContentFiles({}, {}, FALSE, {k}, FALSE)), FALSE>> : k \in QuizKinds}
    \cup {<<DiskOf({<<MANIFEST, WrappedManifest>>} \cup ContentFiles({IntroPage}, {}, FALSE, {k}, FALSE)), FALSE>> :
            k \in TypeRuleKinds}

-----------------------------------------------------------------------------
(* Canvas_Converter.py: MigrationPipeline *)

NoCall == [none |-> TRUE]

\* MigrationPipeline.__init__: a fresh report
FreshPipeline ==
    /\ validation_report = NoReport
    /\ parse_report = NoReport
    /\ transformation_report = NoReport
    /\ verification_report = NoReport
    /\ canvas_course = NoCourse
    /\ tutor_course = NoTutorCourse
    /\ status = SUCCESS
    /\ all_errors = <<>>
    /\ total_errors = 0
    /\ total_warnings = 0
    /\ total_info = 0
    /\ recorded = {}

Init ==
    /\ pc = "validate"
    /\ run = 1
    /\ \E input \in Inputs :
            /\ disk = input[1]
            /\ fs_reverse = input[2]
    /\ FreshPipeline
    /\ orphans_by_run = [r \in 1..MaxRuns |-> {}]
    /\ orphaned_handler = NoCall
    /\ rewrite_input = NoCall
    /\ rewrite_output = NoCall

Validated_Continue(report) ==
    /\ validation_report' = report
    /\ pc' = "parse"
    /\ status' = status

\* run(): stage 1; a validation that does not pass ends the run
Validated(report) ==
    /\ validation_report' = report
    /\ IF report.passed
       THEN pc' = "parse" /\ status' = status
       ELSE pc' = "finalize" /\ status' = FAILURE

Stage1Validate ==
    /\ pc = "validate"
    /\ Validated(Validator_validate(disk, fs_reverse))
    /\ recorded' = Range(Validator_errors(disk, fs_reverse))
    /\ UNCHANGED <<run, disk, fs_reverse, rewrite_input, orphaned_handler, rewrite_output, parse_report,
                   canvas_course, tutor_course, transformation_report, verification_report,
                   all_errors, total_errors, total_warnings, total_info, orphans_by_run>>

\* run(): stage 2; a course of None ends the run
ParsedAs(parsed) ==
    /\ parse_report' = parsed.report
    /\ canvas_course' = parsed.course
    /\ orphans_by_run' = [orphans_by_run EXCEPT ![run] =
             {[identifier |-> parsed.orphaned_pages[i].identifier,
               source_file |-> parsed.orphaned_pages[i].source_file] :
                 i \in DOMAIN parsed.orphaned_pages}]
    /\ IF parsed.course = NoCourse
       THEN pc' = "finalize" /\ status' = FAILURE
       ELSE pc' = "transform" /\ status' = status
    /\ recorded' = recorded \cup Range(parsed.recorded)

Stage2Parse ==
    /\ pc = "parse"
    /\ ParsedAs(Parser_parse(disk, fs_reverse))
    /\ UNCHANGED <<run, disk, fs_reverse, rewrite_input, orphaned_handler, rewrite_output, validation_report,
                   tutor_course, transformation_report, verification_report, all_errors, total_errors, total_warnings, total_info>>

\* run(): stages 3 and 4
TransformedAs(transformed) ==
    /\ tutor_course' = transformed.tutor_course
    /\ transformation_report' = transformed.report
    /\ recorded' = recorded \cup Range(transformed.report.errors)

Stage4Transform ==
    /\ pc = "transform"
    /\ TransformedAs(transform(canvas_course))
    /\ pc' = "export"
    /\ UNCHANGED <<run, disk, fs_reverse, rewrite_input, orphaned_handler, rewrite_output, validation_report,
                   parse_report, canvas_course, verification_report, status, all_errors, total_errors, total_warnings, total_info,
                   orphans_by_run>>

\* run(): stage 5
Stage5Export ==
    /\ pc = "export"
    /\ disk' = TutorExporter_export(disk, tutor_course)
    /\ verification_report' = VerificationReport(<<>>)
    /\ pc' = "reports"
    /\ UNCHANGED <<run, fs_reverse, rewrite_input, orphaned_handler, rewrite_output, validation_report,
                   parse_report, canvas_course, tutor_course, transformation_report, status,
                   all_errors, total_errors, total_warnings, total_info, orphans_by_run, recorded>>

\* the four stage reports aggregated
Aggregated ==
    AggregatedErrors(validation_report, parse_report, transformation_report, verification_report)

\* aggregate_errors: all_errors and the status recomputed from the stage reports
aggregate_errors(errors) ==
    /\ all_errors' = errors
    /\ total_errors' = CountSeverity(errors, {ERROR, CRITICAL})
    /\ total_warnings' = CountSeverity(errors, {WARNING})
    /\ total_info' = CountSeverity(errors, {INFO})
    /\ status' = AggregatedStatus(errors)

\* run(): _generate_reports; ReportGenerator.generate aggregates before writing
GenerateReports ==
    /\ pc = "reports"
    /\ aggregate_errors(Aggregated)
    /\ disk' = ReportGenerator_generate(disk)
    /\ pc' = "finalize"
    /\ UNCHANGED <<run, fs_reverse, rewrite_input, orphaned_handler, rewrite_output, validation_report,
                   parse_report, canvas_course, tutor_course, transformation_report,
                   verification_report, orphans_by_run, recorded>>

\* _finalize_report: aggregate_errors sets all_errors and the status
FinalizeReport ==
    /\ pc = "finalize"
    /\ aggregate_errors(Aggregated)
    /\ pc' = "done"
    /\ UNCHANGED <<run, disk, fs_reverse, rewrite_input, orphaned_handler, rewrite_output, validation_report,
                   parse_report, canvas_course, tutor_course, transformation_report,
                   verification_report, orphans_by_run, recorded>>

\* the pipeline is run again, as a new MigrationPipeline, on the same course
\* directory
Rerun ==
    /\ pc = "done"
    /\ run < MaxRuns
    /\ run' = run + 1
    /\ pc' = "validate"
    /\ validation_report' = NoReport
    /\ parse_report' = NoReport
    /\ transformation_report' = NoReport
    /\ verification_report' = NoReport
    /\ canvas_course' = NoCourse
    /\ tutor_course' = NoTutorCourse
    /\ status' = SUCCESS
    /\ all_errors' = <<>>
    /\ total_errors' = 0
    /\ total_warnings' = 0
    /\ total_info' = 0
    /\ recorded' = {}
    /\ UNCHANGED <<disk, fs_reverse, rewrite_input, orphaned_handler, rewrite_output, orphans_by_run>>

Next ==
    \/ Stage1Validate
    \/ Stage2Parse
    \/ Stage4Transform
    \/ Stage5Export
    \/ GenerateReports
    \/ FinalizeReport
    \/ Rerun

Spec == Init /\ [][Next]_vars

-----------------------------------------------------------------------------
(* CourseTransformer.transform on parsed courses given directly *)

MaxAnswers == 2

Weights == {0, 50, 100}

\* the weights of the answers of a question
WeightSeqs == UNION {[1..n -> Weights] : n \in 0..MaxAnswers}

AnswerIds == <<<<"c1">>, <<"c2">>, <<"c3">>>>

QuestionOf(identifier, question_type, weights) ==
    CanvasQuestion(identifier, <<"Question">>, question_type, AssetBody, 1,
                   [i \in DOMAIN weights |->
                        CanvasQuestionAnswer(AnswerIds[i], <<"option", " ">> \o AnswerIds[i],
                                             weights[i])],
                   AbsPath(<<"q1", "/">> \o identifier \o <<".", "xml">>))

PairTypes == {MULTIPLE_CHOICE, TEXT_ONLY, CALCULATED, ESSAY}

QuestionLists ==
    {<<QuestionOf(<<"qa">>, t, ws)>> : t \in QuestionType, ws \in WeightSeqs}
    \cup {<<QuestionOf(<<"qa">>, t1, <<100, 0>>), QuestionOf(<<"qb">>, t2, <<50>>)>> :
            t1 \in PairTypes, t2 \in PairTypes}

\* a parsed course with one quiz that the item of its one module refers to
CourseWithQuiz(questions) ==
    [CanvasCourse(<<"CS", " ", "1143">>, <<"cs1143">>,
        <<CanvasModule(<<"Week", " ", "1">>, <<"m1">>, 0,
            <<CanvasModuleItem(<<"Quiz", " ", "1">>, <<"i_q1">>, "quiz", Q1_META, <<>>, 0)>>)>>,
        <<>>, <<>>)
     EXCEPT !.quizzes = <<CanvasQuiz(<<"Quiz", " ", "1">>, <<"q1">>, <<"quiz", " ", "text">>, 30, 2,
                                     questions, ACTIVE, AbsPath(Q1_META))>>]

InitTransform ==
    /\ pc = "transform"
    /\ run = 1
    /\ disk = DiskOf({})
    /\ fs_reverse = FALSE
    /\ validation_report = NoReport
    /\ parse_report = NoReport
    /\ transformation_report = NoReport
    /\ verification_report = NoReport
    /\ canvas_course \in {CourseWithQuiz(questions) : questions \in QuestionLists}
    /\ tutor_course = NoTutorCourse
    /\ status = SUCCESS
    /\ all_errors = <<>>
    /\ total_errors = 0
    /\ total_warnings = 0
    /\ total_info = 0
    /\ recorded = {}
    /\ orphans_by_run = [r \in 1..MaxRuns |-> {}]
    /\ orphaned_handler = NoCall
    /\ rewrite_input = NoCall
    /\ rewrite_output = NoCall

NextTransform == Stage4Transform

SpecTransform == InitTransform /\ [][NextTransform]_vars

-----------------------------------------------------------------------------
(* rewrite_canvas_asset_paths on asset references given directly *)

MaxPathLen == 3

\* the tokens of an asset path: names, separators, a blank, and the two
\* placeholder spellings themselves
PathTokens == {"img", ".", "/", " ", FILEBASE_RAW, FILEBASE_ENCODED}

AssetPaths == UNION {[1..n -> PathTokens] : n \in 1..MaxPathLen}

\* the base path of the transformer, the default of the function, and a
\* base path written with backslashes
BasePaths == {ASSETS_BASE, <<"..", "/", "web_resources", "/">>, <<"..", "\\", "web_resources", "\\">>}

\* the markup around an asset reference: none, an attribute value, a CSS url
Contexts ==
    { [before |-> <<>>, after |-> <<>>],
      [before |-> <<"src=", "\"">>, after |-> <<"\"">>],
      [before |-> <<"url(">>, after |-> <<")">>] }

InitRewrite ==
    /\ pc = "rewrite"
    /\ run = 1
    /\ disk = DiskOf({})
    /\ fs_reverse = FALSE
    /\ FreshPipeline
    /\ orphans_by_run = [r \in 1..MaxRuns |-> {}]
    /\ orphaned_handler = NoCall
    /\ rewrite_input \in [asset_path : AssetPaths, base_path : BasePaths, context : Contexts]
    /\ rewrite_output = NoCall

\* the reference to asset_path with the given spelling of the placeholder
Reference(placeholder, input) ==
    input.context.before \o <<placeholder, "/">> \o input.asset_path \o input.context.after

Rewrite ==
    /\ pc = "rewrite"
    /\ rewrite_output' =
            [raw |-> rewrite_canvas_asset_paths(Reference(FILEBASE_RAW, rewrite_input),
                                                rewrite_input.base_path),
             encoded |-> rewrite_canvas_asset_paths(Reference(FILEBASE_ENCODED, rewrite_input),
                                                    rewrite_input.base_path)]
    /\ pc' = "rewritten"
    /\ UNCHANGED <<run, disk, fs_reverse, rewrite_input, orphaned_handler, validation_report, parse_report,
                   canvas_course, tutor_course, transformation_report, verification_report,
                   status, all_errors, total_errors, total_warnings, total_info, orphans_by_run, recorded>>

NextRewrite == Rewrite

SpecRewrite == InitRewrite /\ [][NextRewrite]_vars

-----------------------------------------------------------------------------
(* Properties of a run *)

\* the transform stage of the current run has produced the target tree
Transformed == pc \in {"export", "reports", "finalize", "done"} /\ tutor_course # NoTutorCourse

\* the parse stage of the current run has produced the course
Parsed == pc \in {"transform", "export", "reports", "finalize", "done"} /\ canvas_course # NoCourse

\* diagnostic e names the entity: by its identifier or by its source file
Names(e, entity) ==
    \/ e.canvas_entity_id = entity.identifier
    \/ e.file_path = entity.source_file
    \/ AbsPath(e.file_path) = entity.source_file

Reported(entity) == \E i \in DOMAIN Aggregated : Names(Aggregated[i], entity)

InTree(nodes, entity) == \E i \in DOMAIN nodes : nodes[i].source_canvas_id = entity.identifier

\* C1: after the parse and transform stages every parsed page, quiz and
\* assignment is in the target tree as a Lesson, Quiz or Assignment with its
\* identifier as source_canvas_id, or is named by a diagnostic of the run.
C1_EveryEntityAccounted ==
    Transformed =>
        /\ \A i \in DOMAIN canvas_course.pages :
                \/ InTree(AllLessons(tutor_course.topics), canvas_course.pages[i])
                \/ Reported(canvas_course.pages[i])
        /\ \A i \in DOMAIN canvas_course.quizzes :
                \/ InTree(AllQuizzes(tutor_course.topics), canvas_course.quizzes[i])
                \/ Reported(canvas_course.quizzes[i])
        /\ \A i \in DOMAIN canvas_course.assignments :
                \/ InTree(AllAssignments(tutor_course.topics), canvas_course.assignments[i])
                \/ Reported(canvas_course.assignments[i])

RECOVERED_CONTENT == <<"Recovered", " ", "Content">>

\* C2: every orphaned file the orphan handler parsed into a page has a Lesson
\* in a topic titled "Recovered Content" that is the last topic of the course;
\* without an organization and with one orphan page that topic is the only one.
C2_OrphansInRecoveredContent ==
    Transformed =>
        LET topics == tutor_course.topics
        IN  /\ \A o \in orphans_by_run[run] :
                    /\ topics # <<>>
                    /\ topics[Len(topics)].topic_title = RECOVERED_CONTENT
                    /\ InTree(topics[Len(topics)].lessons, o)
            /\ (~disk[MANIFEST].has_organization /\ Cardinality(orphans_by_run[run]) = 1)
                    => Len(topics) = 1 /\ Len(topics[1].lessons) = 1

\* the organization of the manifest declares exactly the one module with a
\* page item and a quiz item, in the export's root item or directly
OneModuleDeclared(root, wrapped) ==
    /\ root.has_organization
    /\ \E mods \in {<<M1(<<I_P1, I_Q1>>)>>, <<M1(<<I_Q1, I_P1>>)>>} :
            root.items = IF wrapped THEN Wrapped(mods) ELSE mods
    /\ {R_P1, R_Q1} \subseteq Range(root.resources)

\* the export holds the page, the quiz with a multiple-choice and an essay
\* question, and no assignment
PageAndQuizOnDisk ==
    /\ P1_XML \in DOMAIN disk /\ Q1_META \in DOMAIN disk
    /\ Q1_QA \in DOMAIN disk /\ Q1_QB \in DOMAIN disk
    /\ disk[P1_XML].wellformed
    /\ disk[Q1_QA].question_type = "absent"
    /\ disk[Q1_QA].cardinality = "single" /\ disk[Q1_QA].correct # <<>>
    /\ disk[Q1_QB].question_type = ESSAY
    /\ A1_SETTINGS \notin DOMAIN disk

OneTopicOneLessonOneQuiz ==
    /\ Len(tutor_course.topics) = 1
    /\ Len(tutor_course.topics[1].lessons) = 1
    /\ Len(tutor_course.topics[1].quizzes) = 1
    /\ Len(tutor_course.topics[1].quizzes[1].questions) = 2
    /\ DOMAIN transformation_report.question_type_mappings = {MULTIPLE_CHOICE, ESSAY}
    /\ transformation_report.question_type_mappings[MULTIPLE_CHOICE] = 1
    /\ transformation_report.question_type_mappings[ESSAY] = 1
    /\ \A i \in DOMAIN Aggregated : Aggregated[i].severity # CRITICAL

\* C3 as stated: one declared module with a page item and a quiz item gives
\* 1 Topic with 1 Lesson and 1 Quiz of 2 Questions, the histogram
\* {multiple_choice_question: 1, essay_question: 1} and no critical diagnostic.
C3_AsStated ==
    (Transformed /\ PageAndQuizOnDisk
        /\ \E wrapped \in BOOLEAN : OneModuleDeclared(disk[MANIFEST], wrapped))
    => OneTopicOneLessonOneQuiz

\* C3: the same outcome when the module is declared inside the root item of
\* the organization, as Canvas exports it.
C3_WrappedModule ==
    (Transformed /\ PageAndQuizOnDisk /\ OneModuleDeclared(disk[MANIFEST], TRUE))
    => OneTopicOneLessonOneQuiz

C3_Witness ==
    /\ Transformed /\ PageAndQuizOnDisk /\ OneModuleDeclared(disk[MANIFEST], TRUE)
    /\ OneTopicOneLessonOneQuiz
    /\ tutor_course.topics[1].lessons[1].source_canvas_id = <<"p1">>

\* C4: a file whose path is the href of a declared resource is never
\* classified as orphaned and yields no "orphaned_" page.
C4_DeclaredHrefNotOrphaned ==
    Parsed =>
        \A i \in DOMAIN disk[MANIFEST].resources : \A o \in orphans_by_run[run] :
            o.source_file # AbsPath(disk[MANIFEST].resources[i].href)

\* C5: no file under the output directory is classified as orphaned, and a
\* second run on the same course directory recovers the orphan pages of the
\* first run.
C5_OutputNotOrphaned ==
    /\ \A r \in 1..run : \A o \in orphans_by_run[r] :
            ~StartsWith(o.source_file, AbsPath(OUTPUT_DIR) \o <<"/">>)
    /\ (run >= 2 /\ Parsed) => orphans_by_run[run] = orphans_by_run[1]

-----------------------------------------------------------------------------
(* Properties of the transformed quizzes *)

\* the quizzes of the target tree, one for every time the transformer
\* processed a quiz, and the parsed quiz each came from
ProcessedQuizzes == AllQuizzes(tutor_course.topics)

SourceQuiz(tutor_quiz) ==
    CHOOSE quiz \in Range(canvas_course.quizzes) : quiz.identifier = tutor_quiz.source_canvas_id

\* the source types the mapping table gives no target type
UnmappedTypes == {TEXT_ONLY}

Unmapped(question) == question.question_type \in UnmappedTypes

Kept(quiz) == SelectSeq(quiz.questions, LAMBDA q : ~Unmapped(q))

\* the visits of the transformer: quiz k of the tree, question j of its source
Visits ==
    UNION {{<<k, j>> : j \in DOMAIN SourceQuiz(ProcessedQuizzes[k]).questions} :
            k \in DOMAIN ProcessedQuizzes}

Visited(v) == SourceQuiz(ProcessedQuizzes[v[1]]).questions[v[2]]

WarningsFor(identifier) ==
    {i \in DOMAIN transformation_report.errors :
        /\ transformation_report.errors[i].severity = WARNING
        /\ transformation_report.errors[i].canvas_entity_id = identifier}

FallbackTypes == {CALCULATED, FORMULA, NUMERICAL, FILE_UPLOAD, MULTIPLE_DROPDOWNS, CATEGORIZATION}

\* C7: a question whose source type is mapped to a fallback type is created
\* with the fallback type and a WARNING diagnostic is recorded for it.
C7_FallbackCreatedWithWarning ==
    Transformed =>
        \A v \in Visits :
            Visited(v).question_type \in FallbackTypes =>
                /\ \E i \in DOMAIN ProcessedQuizzes[v[1]].questions :
                        LET out == ProcessedQuizzes[v[1]].questions[i]
                        IN  /\ out.source_canvas_id = Visited(v).identifier
                            /\ out.question_type = QUESTION_TYPE_MAPPING(Visited(v).question_type)
                /\ WarningsFor(Visited(v).identifier) # {}

RECURSIVE SumValues(_)
SumValues(f) ==
    IF DOMAIN f = {} THEN 0
    ELSE LET t == CHOOSE t \in DOMAIN f : TRUE
         IN  f[t] + SumValues([u \in DOMAIN f \ {t} |-> f[u]])

Histogram == transformation_report.question_type_mappings

SkipDiagnostics ==
    {i \in DOMAIN transformation_report.errors :
        transformation_report.errors[i].error_type = "UNSUPPORTED_QUESTION_TYPE"}

\* C8: the histogram counts every visited question under its own source
\* type, and its values add up to the questions emitted plus the questions
\* skipped.
C8_HistogramCountsVisits ==
    Transformed =>
        /\ \A t \in QuestionType :
                (IF t \in DOMAIN Histogram THEN Histogram[t] ELSE 0)
                    = Cardinality({v \in Visits : Visited(v).question_type = t})
        /\ DOMAIN Histogram \subseteq QuestionType
        /\ SumValues(Histogram)
                = Len(AllQuestions(tutor_course.topics)) + Cardinality(SkipDiagnostics)

C8_Witness ==
    /\ Transformed
    /\ SumValues(Histogram) = 2
    /\ Len(AllQuestions(tutor_course.topics)) = 1
    /\ Cardinality(SkipDiagnostics) = 1

\* C9: an answer of an emitted question is correct iff the weight of the
\* source answer is at least 100 (0 and 50 give false, 100 gives true), and
\* the answers keep their number and their order.
C9_CorrectIffFullWeight ==
    Transformed =>
        \A k \in DOMAIN ProcessedQuizzes :
            \A i \in DOMAIN ProcessedQuizzes[k].questions :
                LET out == ProcessedQuizzes[k].questions[i].answers
                    source == Kept(SourceQuiz(ProcessedQuizzes[k]))[i].answers
                IN  /\ Len(out) = Len(source)
                    /\ \A a \in DOMAIN out :
                        /\ out[a].is_correct <=> source[a].weight >= 100
                        /\ source[a].weight \in {0, 50} => ~out[a].is_correct
                        /\ source[a].weight = 100 => out[a].is_correct
                        /\ out[a].answer_order = a - 1
                        /\ out[a].answer_title = source[a].text

C9_Witness ==
    /\ Transformed
    /\ \E k \in DOMAIN ProcessedQuizzes :
        \E i \in DOMAIN ProcessedQuizzes[k].questions :
            LET out == ProcessedQuizzes[k].questions[i].answers
                source == Kept(SourceQuiz(ProcessedQuizzes[k]))[i].answers
            IN  /\ Len(out) = 2
                /\ source[1].weight = 50 /\ ~out[1].is_correct
                /\ source[2].weight = 100 /\ out[2].is_correct

-----------------------------------------------------------------------------
(* Properties of the rewritten asset references *)

Rewritten == pc = "rewritten"

\* the reference with base_path followed by the asset path in place of the
\* placeholder and the path
Expected(input) ==
    input.context.before \o input.base_path \o input.asset_path \o input.context.after

\* C10 as stated: for every asset path and every base path the raw and the
\* percent-encoded reference are both rewritten to base_path followed by the
\* asset path.
C10_AsStated ==
    Rewritten =>
        /\ rewrite_output.raw = Expected(rewrite_input)
        /\ rewrite_output.encoded = Expected(rewrite_input)

\* an asset path that starts with a character the pattern accepts and holds
\* neither spelling of the placeholder
OrdinaryPath(p) ==
    /\ p # <<>>
    /\ p[1] \notin PathDelimiters
    /\ \A i \in DOMAIN p : p[i] \notin {FILEBASE_RAW, FILEBASE_ENCODED}

OrdinaryBase(base_path) == \A i \in DOMAIN base_path : base_path[i] # "\\"

\* The part of C10 that holds: for an ordinary asset path and a base path
\* without backslashes the raw and the percent-encoded reference are both
\* rewritten to base_path followed by the asset path.
C10_OrdinaryPaths ==
    (Rewritten /\ OrdinaryPath(rewrite_input.asset_path)
        /\ OrdinaryBase(rewrite_input.base_path)) =>
        /\ rewrite_output.raw = Expected(rewrite_input)
        /\ rewrite_output.encoded = Expected(rewrite_input)

C10_Witness ==
    /\ Rewritten
    /\ OrdinaryPath(rewrite_input.asset_path)
    /\ OrdinaryBase(rewrite_input.base_path)
    /\ Len(rewrite_input.asset_path) >= 3
    /\ rewrite_input.context.before # <<>>
    /\ rewrite_output.encoded = Expected(rewrite_input)
    /\ rewrite_output.raw = rewrite_output.encoded

-----------------------------------------------------------------------------
(* Properties of the emitted assignments *)

\* the module items of content type assignment that resolve the assignment,
\* as pairs of module index and item index
ResolvingItems(assignment) ==
    {<<k, j>> \in UNION {{<<k2, j2>> : j2 \in DOMAIN canvas_course.modules[k2].items} :
                            k2 \in DOMAIN canvas_course.modules} :
        /\ canvas_course.modules[k].items[j].content_type = "assignment"
        /\ _find_assignment(canvas_course, canvas_course.modules[k].items[j]) = <<assignment>>}

\* how often the identifier occurs in the assignment lists of all topics
Emitted(assignment) ==
    Cardinality({i \in DOMAIN AllAssignments(tutor_course.topics) :
        AllAssignments(tutor_course.topics)[i].source_canvas_id = assignment.identifier})

LastTopic == tutor_course.topics[Len(tutor_course.topics)]

\* C11 as stated: every parsed assignment is emitted exactly once: in the
\* topic of the module whose item resolves it, otherwise in a synthetic
\* "Assignments" topic that comes after all module topics.
C11_AsStated ==
    Transformed =>
        \A i \in DOMAIN canvas_course.assignments :
            LET a == canvas_course.assignments[i]
            IN  /\ Emitted(a) = 1
                /\ \A r \in ResolvingItems(a) :
                        InTree(tutor_course.topics[r[1]].assignments, a)
                /\ ResolvingItems(a) = {} =>
                        /\ Len(tutor_course.topics) = Len(canvas_course.modules) + 1
                        /\ LastTopic.topic_title = <<"Assignments">>
                        /\ InTree(LastTopic.assignments, a)

\* C11: a parsed assignment is emitted once for every module item that
\* resolves it, in the topic of that item's module; an assignment no module
\* item resolves is emitted exactly once, in a synthetic "Assignments" topic
\* that comes after all module topics.
C11_OncePerResolvingItem ==
    Transformed =>
        \A i \in DOMAIN canvas_course.assignments :
            LET a == canvas_course.assignments[i]
            IN  /\ Emitted(a) = IF ResolvingItems(a) = {} THEN 1
                                ELSE Cardinality(ResolvingItems(a))
                /\ \A r \in ResolvingItems(a) :
                        InTree(tutor_course.topics[r[1]].assignments, a)
                /\ ResolvingItems(a) = {} =>
                        /\ Len(tutor_course.topics) = Len(canvas_course.modules) + 1
                        /\ LastTopic.topic_title = <<"Assignments">>
                        /\ InTree(LastTopic.assignments, a)
                /\ ResolvingItems(a) # {} =>
                        \A k \in DOMAIN tutor_course.topics :
                            InTree(tutor_course.topics[k].assignments, a)
                                => \E r \in ResolvingItems(a) : r[1] = k

C11_Witness ==
    /\ Transformed
    /\ \E i \in DOMAIN canvas_course.assignments :
            /\ Cardinality(ResolvingItems(canvas_course.assignments[i])) = 2
            /\ Emitted(canvas_course.assignments[i]) = 2
            /\ Len(tutor_course.topics) = 2

-----------------------------------------------------------------------------
(* Properties of the halting of a run *)

\* the run has met a critical condition: validation did not pass, or the
\* parse stage returned no course
ValidationFailed == validation_report # NoReport /\ ~validation_report.passed

ParseFailed == parse_report # NoReport /\ canvas_course = NoCourse

TUTOR_COURSE_JSON == PathJoin(OUTPUT_DIR, <<"tutor", "_", "course", ".", "json">>)

\* C12: when validation does not pass or the manifest gives no course, the run
\* executes no later stage: transformation and export never start and no
\* course JSON is written.
C12_HaltedRunsNoLaterStage ==
    (ValidationFailed \/ ParseFailed) =>
        /\ pc \in {"finalize", "done"}
        /\ ValidationFailed => parse_report = NoReport /\ canvas_course = NoCourse
        /\ tutor_course = NoTutorCourse
        /\ transformation_report = NoReport
        /\ verification_report = NoReport
        /\ TUTOR_COURSE_JSON \notin DOMAIN disk

C12_Witness ==
    /\ pc = "done"
    /\ run = MaxRuns
    /\ ValidationFailed
    /\ MANIFEST \in DOMAIN disk
    /\ tutor_course = NoTutorCourse
    /\ TUTOR_COURSE_JSON \notin DOMAIN disk

-----------------------------------------------------------------------------
(* Properties of the diagnostics of a run *)

\* some component of this run has recorded a diagnostic of severity CRITICAL
CriticalRecorded == \E e \in recorded : e.severity = CRITICAL

\* C13: a run stops before transformation only when the validator or the
\* manifest parser has produced a diagnostic of severity CRITICAL; a run in
\* which only error, warning or info diagnostics were produced proceeds to
\* transformation and export.
C13_HaltOnlyOnCritical ==
    /\ (ValidationFailed \/ ParseFailed) => CriticalRecorded
    /\ (pc = "done" /\ ~CriticalRecorded) =>
            /\ transformation_report # NoReport
            /\ TUTOR_COURSE_JSON \in DOMAIN disk

\* the run has ended at the validator or at the manifest parser because of a
\* critical condition: the manifest is missing or cannot be parsed
HaltedOnCriticalCondition ==
    /\ ValidationFailed \/ ParseFailed
    /\ MANIFEST \notin DOMAIN disk \/ ~disk[MANIFEST].wellformed

\* C14: whenever run halts because of a critical condition (manifest missing
\* or unparseable), the MigrationReport it returns has status FAILURE.
C14_HaltedRunReportsFailure ==
    (pc = "done" /\ HaltedOnCriticalCondition) => status = FAILURE

\* C15: every diagnostic that a component records during a run is present
\* in MigrationReport.all_errors when the run ends, including runs that halt
\* early.
C15_RecordedDiagnosticsAggregated ==
    pc = "done" => recorded \subseteq Range(all_errors)

-----------------------------------------------------------------------------
(* Properties of unresolved module items *)

\* the module items <<module index, item index>> of the parsed course
ModuleItems ==
    UNION {{<<k, j>> : j \in DOMAIN canvas_course.modules[k].items} :
                k \in DOMAIN canvas_course.modules}

\* the item has a content type the transformer looks up, and no parsed entity
\* matches it
Unresolved(item) ==
    \/ item.content_type = "page" /\ _find_page(canvas_course, item) = <<>>
    \/ item.content_type = "quiz" /\ _find_quiz(canvas_course, item) = <<>>
    \/ item.content_type = "assignment" /\ _find_assignment(canvas_course, item) = <<>>

\* C16: for every module item that has a content type but no matching parsed
\* entity, the transformer records a diagnostic of severity info that
\* identifies the unresolved node.
C16_UnresolvedItemReported ==
    Transformed =>
        \A p \in ModuleItems :
            Unresolved(canvas_course.modules[p[1]].items[p[2]]) =>
                \E i \in DOMAIN transformation_report.errors :
                    /\ transformation_report.errors[i].severity = INFO
                    /\ transformation_report.errors[i].canvas_entity_id \in
                            {canvas_course.modules[p[1]].items[p[2]].identifier,
                             canvas_course.modules[p[1]].items[p[2]].content_file}

-----------------------------------------------------------------------------
(* Properties of orphan reconciliation *)

\* C17: orphan reconciliation leaves the organization tree unchanged: every
\* module and module item the manifest parser produced is present, with the
\* same children in the same order, in the course Parser.parse returns.
C17_ModulesUnchangedByReconciliation ==
    Parsed => canvas_course.modules = ManifestParser_parse(disk).course.modules

C17_Witness ==
    /\ Parsed
    /\ orphans_by_run[run] # {}
    /\ \E k \in DOMAIN canvas_course.modules : canvas_course.modules[k].items # <<>>

-----------------------------------------------------------------------------
(* OrphanedContentHandler.process_all_orphaned_content called repeatedly on *)
(* one handler, the files on disk and the referenced set staying the same   *)

MaxCalls == 2

\* the referenced sets the handler is called with: the resource identifiers
\* Parser.parse passes, and the hrefs the manifest declares
ReferencedSets(d) ==
    IF parse_xml_file_raises(d, MANIFEST) THEN {{}}
    ELSE {ReferencedFiles(ManifestParser_parse(d).course), Range(ReferencedHrefs(d[MANIFEST]))}

OrphanedContentHandler_call_KeepsPages(handler, d, reverse, result) ==
    [handler EXCEPT
        !.errors = @ \o result.errors,
        !.returned = Append(@, (IF @ = <<>> THEN <<>> ELSE @[Len(@)]) \o result.pages)]

\* one call of process_all_orphaned_content on the handler: pages is a local
\* list, the diagnostics are appended to the handler's errors list
OrphanedContentHandler_call(handler, d, reverse, result) ==
    [handler EXCEPT
        !.errors = @ \o result.errors,
        !.returned = Append(@, result.pages)]

InitOrphans ==
    /\ pc = "orphans"
    /\ run = 1
    /\ \E input \in Inputs :
            /\ disk = input[1]
            /\ fs_reverse = input[2]
    /\ FreshPipeline
    /\ orphans_by_run = [r \in 1..MaxRuns |-> {}]
    /\ rewrite_input = NoCall
    /\ rewrite_output = NoCall
    /\ \E referenced_files \in ReferencedSets(disk) :
            orphaned_handler = [referenced_files |-> referenced_files, errors |-> <<>>, returned |-> <<>>]

ProcessAllOrphanedContent ==
    /\ pc = "orphans"
    /\ Len(orphaned_handler.returned) < MaxCalls
    /\ orphaned_handler' =
            OrphanedContentHandler_call(orphaned_handler, disk, fs_reverse,
                process_all_orphaned_content(disk, orphaned_handler.referenced_files, fs_reverse))
    /\ UNCHANGED <<pc, run, disk, fs_reverse, rewrite_input, rewrite_output, validation_report,
                   parse_report, canvas_course, tutor_course, transformation_report,
                   verification_report, status, all_errors, total_errors, total_warnings, total_info, orphans_by_run, recorded>>

NextOrphans == ProcessAllOrphanedContent

SpecOrphans == InitOrphans /\ [][NextOrphans]_vars

\* the files the handler treats as orphaned: what its three loops parse
OrphanedFiles ==
    Range(find_orphaned_xml_files(disk, orphaned_handler.referenced_files, fs_reverse))
    \cup {f \in RGlob(disk, "html") : ~InSkippedOutput(f) /\ f \notin orphaned_handler.referenced_files}
    \cup {f \in RGlob(disk, "pptx") :
            /\ ~InSkippedOutput(f)
            /\ ~\E ref \in orphaned_handler.referenced_files :
                   Truthy(ref) /\ Replace(ref, "\\", "/") = Replace(f, "\\", "/")}

\* the number of pages of the list that come from the file
PagesFrom(pages, f) == Cardinality({i \in DOMAIN pages : pages[i].source_file = AbsPath(f)})

\* the file can be parsed and, for an XML file, holds content of at least
\* ten characters
Parseable(f) ==
    /\ disk[f].wellformed
    /\ HasSuffix(f, "xml") => StrLen(Strip(_extract_content_from_xml(disk[f]))) >= 10

AllCallsReturnTheSame ==
    \A i, j \in DOMAIN orphaned_handler.returned :
        orphaned_handler.returned[i] = orphaned_handler.returned[j]

\* C18 as stated: two calls with the same files and the same referenced set
\* return the same list of pages, and each orphaned file contributes exactly
\* one page to that list.
C18_AsStated ==
    orphaned_handler # NoCall =>
        /\ AllCallsReturnTheSame
        /\ \A i \in DOMAIN orphaned_handler.returned : \A f \in OrphanedFiles :
                PagesFrom(orphaned_handler.returned[i], f) = 1

\* C18, amended: two calls with the same files and the same referenced set
\* return the same list of pages; each orphaned file that can be parsed
\* contributes exactly one page to it and every other orphaned file none.
C18_SameListOnePagePerParseableFile ==
    orphaned_handler # NoCall =>
        /\ AllCallsReturnTheSame
        /\ \A i \in DOMAIN orphaned_handler.returned : \A f \in OrphanedFiles :
                PagesFrom(orphaned_handler.returned[i], f) = IF Parseable(f) THEN 1 ELSE 0
        /\ \A i \in DOMAIN orphaned_handler.returned :
                Len(orphaned_handler.returned[i]) = Cardinality({f \in OrphanedFiles : Parseable(f)})

C18_Witness ==
    /\ orphaned_handler # NoCall
    /\ Len(orphaned_handler.returned) = 2
    /\ orphaned_handler.returned[1] = orphaned_handler.returned[2]
    /\ \E f \in OrphanedFiles : Parseable(f) /\ PagesFrom(orphaned_handler.returned[2], f) = 1
    /\ \E f \in OrphanedFiles : ~Parseable(f) /\ PagesFrom(orphaned_handler.returned[2], f) = 0

-----------------------------------------------------------------------------
(* Properties of the ordering fields *)

\* the values of the field are strictly increasing in list order
Increasing(seq, Field(_)) ==
    \A i, j \in DOMAIN seq : i < j => Field(seq[i]) < Field(seq[j])

MenuOrdered(seq) == Increasing(seq, LAMBDA x : x.menu_order)

\* the entries carry the menu_order of the module items they were made for:
\* each is the position of an item of the given content type, and the items
\* are met in the order of the module
FollowsItems(seq, module, content_type) ==
    \E at \in [DOMAIN seq -> DOMAIN module.items] :
        /\ \A i, j \in DOMAIN seq : i < j => at[i] < at[j]
        /\ \A i \in DOMAIN seq :
                /\ module.items[at[i]].content_type = content_type
                /\ seq[i].menu_order = module.items[at[i]].position

\* the questions of the emitted quiz are questions of the source quiz, at the
\* index their question_order names; likewise the answers
FollowsQuestions(tutor_quiz, quiz) ==
    \A i \in DOMAIN tutor_quiz.questions :
        LET q == tutor_quiz.questions[i]
        IN  /\ q.question_order + 1 \in DOMAIN quiz.questions
            /\ quiz.questions[q.question_order + 1].identifier = q.source_canvas_id
            /\ Len(q.answers) = Len(quiz.questions[q.question_order + 1].answers)
            /\ \A a \in DOMAIN q.answers : q.answers[a].answer_order = a - 1

\* C19: in the transformed course the ordering fields are strictly
\* increasing in list order within every parent and follow the source
\* traversal order: topic_order over the topics (with the synthetic
\* Assignments topic), menu_order over each topic's lessons, quizzes and
\* assignments, question_order over each quiz's questions, answer_order over
\* each question's answers.
C19_OrderingFollowsTraversal ==
    Transformed =>
        /\ Increasing(tutor_course.topics, LAMBDA t : t.topic_order)
        /\ \A k \in DOMAIN tutor_course.topics :
                /\ MenuOrdered(tutor_course.topics[k].lessons)
                /\ MenuOrdered(tutor_course.topics[k].quizzes)
                /\ MenuOrdered(tutor_course.topics[k].assignments)
                /\ \A q \in DOMAIN tutor_course.topics[k].quizzes :
                        /\ Increasing(tutor_course.topics[k].quizzes[q].questions,
                                      LAMBDA x : x.question_order)
                        /\ \A n \in DOMAIN tutor_course.topics[k].quizzes[q].questions :
                                Increasing(tutor_course.topics[k].quizzes[q].questions[n].answers,
                                           LAMBDA x : x.answer_order)
                        /\ \E c \in DOMAIN canvas_course.quizzes :
                                /\ canvas_course.quizzes[c].identifier =
                                        tutor_course.topics[k].quizzes[q].source_canvas_id
                                /\ FollowsQuestions(tutor_course.topics[k].quizzes[q],
                                                    canvas_course.quizzes[c])
        /\ \A k \in DOMAIN canvas_course.modules :
                /\ tutor_course.topics[k].source_canvas_id = canvas_course.modules[k].identifier
                /\ tutor_course.topics[k].topic_order = canvas_course.modules[k].position
                /\ FollowsItems(tutor_course.topics[k].lessons, canvas_course.modules[k], "page")
                /\ FollowsItems(tutor_course.topics[k].quizzes, canvas_course.modules[k], "quiz")
                /\ FollowsItems(tutor_course.topics[k].assignments, canvas_course.modules[k], "assignment")
        /\ \A k \in DOMAIN tutor_course.topics :
                k > Len(canvas_course.modules) =>
                    \A i \in DOMAIN tutor_course.topics[k].assignments :
                        tutor_course.topics[k].assignments[i].menu_order = i - 1

C19_Witness ==
    /\ Transformed
    /\ pc = "done"
    /\ Len(tutor_course.topics) >= 2
    /\ LastTopic.source_canvas_id = <<"orphaned_assignments_topic">>
    /\ LastTopic.topic_order = Len(tutor_course.topics)
    /\ \E k \in DOMAIN tutor_course.topics : \E q \in DOMAIN tutor_course.topics[k].quizzes :
            /\ tutor_course.topics[k].lessons # <<>>
            /\ Len(tutor_course.topics[k].quizzes[q].questions) >= 2
            /\ \E n \in DOMAIN tutor_course.topics[k].quizzes[q].questions :
                    Len(tutor_course.topics[k].quizzes[q].questions[n].answers) >= 2

-----------------------------------------------------------------------------
(* Properties of the status translation *)

\* the target status the workflow state stands for
StatusFor(workflow_state) ==
    IF workflow_state = <<"unpublished">> THEN "draft"
    ELSE IF workflow_state = <<"deleted">> THEN "trash"
    ELSE "publish"

\* the list holds the entity made for the module item from the source entity
EmittedFor(seq, item, entity) ==
    \E i \in DOMAIN seq :
        /\ seq[i].source_canvas_id = entity.identifier
        /\ seq[i].menu_order = item.position
        /\ seq[i].post_status = StatusFor(entity.workflow_state)

\* every entry of the list stems from a source entity of the same identifier
\* and has the status of that entity's workflow state
StatusFromSource(seq, entities) ==
    \A i \in DOMAIN seq : \E e \in DOMAIN entities :
        /\ entities[e].identifier = seq[i].source_canvas_id
        /\ seq[i].post_status = StatusFor(entities[e].workflow_state)

\* the module item resolves to an entity and the topic of its module holds it
ResolvedItemEmitted(topic, item) ==
    /\ (item.content_type = "page" /\ _find_page(canvas_course, item) # <<>>) =>
            EmittedFor(topic.lessons, item, _find_page(canvas_course, item)[1])
    /\ (item.content_type = "quiz" /\ _find_quiz(canvas_course, item) # <<>>) =>
            EmittedFor(topic.quizzes, item, _find_quiz(canvas_course, item)[1])
    /\ (item.content_type = "assignment" /\ _find_assignment(canvas_course, item) # <<>>) =>
            EmittedFor(topic.assignments, item, _find_assignment(canvas_course, item)[1])

\* C20: the post_status of every page, quiz and assignment the transformer
\* emits is determined by the source workflow state alone (active to publish,
\* unpublished to draft, deleted to trash, anything else to publish), and no
\* resolved entity is omitted from the output because of its workflow state.
C20_StatusFromWorkflowState ==
    Transformed =>
        /\ \A k \in DOMAIN tutor_course.topics :
                /\ StatusFromSource(tutor_course.topics[k].lessons, canvas_course.pages)
                /\ StatusFromSource(tutor_course.topics[k].quizzes, canvas_course.quizzes)
                /\ StatusFromSource(tutor_course.topics[k].assignments, canvas_course.assignments)
        /\ \A p \in ModuleItems :
                ResolvedItemEmitted(tutor_course.topics[p[1]], canvas_course.modules[p[1]].items[p[2]])
        /\ \A a \in DOMAIN canvas_course.assignments :
                Emitted(canvas_course.assignments[a]) >= 1

C20_Witness ==
    /\ Transformed
    /\ \E k \in DOMAIN tutor_course.topics : \E i \in DOMAIN tutor_course.topics[k].lessons :
            /\ tutor_course.topics[k].lessons[i].post_status = "trash"
            /\ tutor_course.topics[k].quizzes # <<>>
    /\ \E a \in DOMAIN AllAssignments(tutor_course.topics) :
            AllAssignments(tutor_course.topics)[a].post_status = "publish"

-----------------------------------------------------------------------------
(* Properties of the resolver *)

\* some entity of the collection carries the identifier of the item
HasIdentifierMatch(entities, item) ==
    \E i \in DOMAIN entities : entities[i].identifier = item.identifier

\* what the resolver returns for the item is an entity matched by identifier
\* whenever the collection holds one, and the topic holds the entity made of it
IdentifierMatchWins(entities, found, emitted, item) ==
    HasIdentifierMatch(entities, item) =>
        /\ found # <<>>
        /\ found[1].identifier = item.identifier
        /\ \A i \in DOMAIN emitted :
                emitted[i].menu_order = item.position =>
                    emitted[i].source_canvas_id = item.identifier

ResolvedByIdentifier(topic, item) ==
    /\ item.content_type = "page" =>
            IdentifierMatchWins(canvas_course.pages, _find_page(canvas_course, item),
                                topic.lessons, item)
    /\ item.content_type = "quiz" =>
            IdentifierMatchWins(canvas_course.quizzes, _find_quiz(canvas_course, item),
                                topic.quizzes, item)
    /\ item.content_type = "assignment" =>
            IdentifierMatchWins(canvas_course.assignments, _find_assignment(canvas_course, item),
                                topic.assignments, item)

\* C21: when some parsed entity of the item's type has the identifier of the
\* module item, the resolver returns an entity matched by identifier, even
\* when an entity earlier in the collection matches by path substring.
C21_IdentifierMatchFirst ==
    Transformed =>
        \A p \in ModuleItems :
            ResolvedByIdentifier(tutor_course.topics[p[1]], canvas_course.modules[p[1]].items[p[2]])

\* a path without letter case and with one kind of separator
NormalizedPath(path) == Lower(Replace(path, "\\", "/"))

\* the contentFile of the item names the source location of the entity, up
\* to letter case and the kind of slashes
SamePathUpToCaseAndSlashes(item, entity) ==
    /\ Truthy(item.content_file)
    /\ Truthy(entity.source_file)
    /\ IsSubstring(NormalizedPath(item.content_file), NormalizedPath(entity.source_file))

\* an entity of the collection lies at the item's path: the item is resolved
\* and the topic holds an entity made for it
ResolvedByPath(entities, found, emitted, item) ==
    (\E i \in DOMAIN entities : SamePathUpToCaseAndSlashes(item, entities[i])) =>
        /\ found # <<>>
        /\ \E i \in DOMAIN emitted : emitted[i].menu_order = item.position

PathMatchNormalized(topic, item) ==
    /\ item.content_type = "page" =>
            ResolvedByPath(canvas_course.pages, _find_page(canvas_course, item), topic.lessons, item)
    /\ item.content_type = "quiz" =>
            ResolvedByPath(canvas_course.quizzes, _find_quiz(canvas_course, item), topic.quizzes, item)
    /\ item.content_type = "assignment" =>
            ResolvedByPath(canvas_course.assignments, _find_assignment(canvas_course, item),
                           topic.assignments, item)

\* C22: path matching in the resolver is case-insensitive and
\* separator-normalized for pages, quizzes and assignments: a module item
\* whose contentFile differs from an entity's source location only by letter
\* case or by the kind of slashes resolves to that entity.
C22_PathMatchNormalizedForAllTypes ==
    Transformed =>
        \A p \in ModuleItems :
            PathMatchNormalized(tutor_course.topics[p[1]], canvas_course.modules[p[1]].items[p[2]])

-----------------------------------------------------------------------------
(* Properties of the walk over the organization tree *)

\* the items below a module at every depth, depth-first in document order
RECURSIVE Descendants(_)
Descendants(items) ==
    IF items = <<>> THEN <<>>
    ELSE <<Head(items)>> \o Descendants(Head(items).items) \o Descendants(Tail(items))

\* the item resolves to a parsed entity of its type
Resolvable(item) ==
    \/ item.content_type = "page" /\ _find_page(canvas_course, item) # <<>>
    \/ item.content_type = "quiz" /\ _find_quiz(canvas_course, item) # <<>>
    \/ item.content_type = "assignment" /\ _find_assignment(canvas_course, item) # <<>>

\* the entity the item resolves to is in the topic
YieldsEntity(topic, item) ==
    /\ item.content_type = "page" =>
            InTree(topic.lessons, _find_page(canvas_course, item)[1])
    /\ item.content_type = "quiz" =>
            InTree(topic.quizzes, _find_quiz(canvas_course, item)[1])
    /\ item.content_type = "assignment" =>
            InTree(topic.assignments, _find_assignment(canvas_course, item)[1])

\* C23: transform visits every item of the organization tree, at any depth,
\* exactly once: a resolvable item nested below another item yields its target
\* entity in the topic of its module, and the topic holds one entity for each
\* resolvable item.
C23_EveryItemVisitedOnce ==
    Transformed =>
        \A k \in DOMAIN canvas_course.modules :
            /\ \A i \in DOMAIN Descendants(canvas_course.modules[k].items) :
                    Resolvable(Descendants(canvas_course.modules[k].items)[i]) =>
                        YieldsEntity(tutor_course.topics[k],
                                     Descendants(canvas_course.modules[k].items)[i])
            /\ Len(tutor_course.topics[k].lessons) + Len(tutor_course.topics[k].quizzes)
                    + Len(tutor_course.topics[k].assignments)
                  = Cardinality({i \in DOMAIN Descendants(canvas_course.modules[k].items) :
                                    Resolvable(Descendants(canvas_course.modules[k].items)[i])})

-----------------------------------------------------------------------------
(* Properties of the wrapper rule of the manifest parser *)

\* the organization of the manifest on disk has a single top-level item
SingleTopLevelItem ==
    /\ MANIFEST \in DOMAIN disk
    /\ disk[MANIFEST].has_organization
    /\ Len(disk[MANIFEST].items) = 1

\* the identifiers of the modules of the parsed course, in order
ModuleIdentifiers == [k \in DOMAIN canvas_course.modules |-> canvas_course.modules[k].identifier]

\* the identifiers of the item elements, in order
ItemIdentifiers(items) == [i \in DOMAIN items |-> items[i].identifier]

\* C24: the manifest parser flattens a single top-level organization item to
\* its children only when that item has no bound resource (no identifierref)
\* and has at least one child; a single top-level item with a bound resource,
\* or without children, is kept as a module of its own.
C24_FlattenOnlyUnboundWrapper ==
    (Parsed /\ SingleTopLevelItem) =>
        IF ~Truthy(disk[MANIFEST].items[1].identifierref) /\ disk[MANIFEST].items[1].items # <<>>
        THEN ModuleIdentifiers = ItemIdentifiers(disk[MANIFEST].items[1].items)
        ELSE ModuleIdentifiers = <<disk[MANIFEST].items[1].identifier>>

-----------------------------------------------------------------------------
(* Properties of single-file parse failures *)

\* the content files of the export that are no well-formed documents
FailingFiles == {f \in DOMAIN disk \ {MANIFEST} : ~disk[f].wellformed}

\* the diagnostics of the parse stage that name the file
DiagnosticsFor(f) ==
    {i \in DOMAIN parse_report.errors : parse_report.errors[i].file_path = AbsPath(f)}

\* no parsed entity stems from the file
NoEntityFrom(f) ==
    /\ \A i \in DOMAIN canvas_course.pages : canvas_course.pages[i].source_file # AbsPath(f)
    /\ \A i \in DOMAIN canvas_course.quizzes : canvas_course.quizzes[i].source_file # AbsPath(f)
    /\ \A i \in DOMAIN canvas_course.assignments :
            canvas_course.assignments[i].source_file # AbsPath(f)

\* the parse stage has just returned
JustParsed == Parsed /\ pc = "transform"

\* C25: a parse failure of a single content file yields no entity and a
\* diagnostic of severity WARNING, never a higher severity; Parser.parse
\* returns the course all the same, with the remaining files parsed.
C25_ParseFailureIsWarning ==
    JustParsed =>
        /\ \A f \in FailingFiles :
                /\ NoEntityFrom(f)
                /\ DiagnosticsFor(f) # {}
                /\ \A i \in DiagnosticsFor(f) : parse_report.errors[i].severity = WARNING
        /\ \A f \in Glob(disk, WIKI_CONTENT, "xml") \ FailingFiles :
                \E i \in DOMAIN canvas_course.pages : canvas_course.pages[i].source_file = AbsPath(f)

\* C26: within one run a content file whose parse failed is attempted by
\* exactly one parser and produces exactly one diagnostic: it is recorded
\* once and never parsed again.
C26_FailedFileRecordedOnce ==
    JustParsed => \A f \in FailingFiles : Cardinality(DiagnosticsFor(f)) = 1

-----------------------------------------------------------------------------
(* Properties of the type rule of the question parser *)

QuestionFiles == {f \in {Q1_QA, Q1_QB} : f \in DOMAIN disk /\ disk[f].kind = "xml" /\ disk[f].wellformed}

\* the questions Parser.parse made of question file f
QuestionsFrom(f) ==
    UNION {{quiz.questions[j] : j \in {n \in DOMAIN quiz.questions :
                                        quiz.questions[n].source_file = AbsPath(f)}} :
           quiz \in {canvas_course.quizzes[k] : k \in DOMAIN canvas_course.quizzes}}

TypedBy(doc, type) ==
    /\ doc.question_type # "absent" /\ LowerToken(doc.question_type) \in QuestionParser_type_mapping
            => type = LowerToken(doc.question_type)
    /\ doc.question_type # "absent" /\ LowerToken(doc.question_type) \notin QuestionParser_type_mapping
            => type = ESSAY
    /\ doc.question_type = "absent" /\ doc.cardinality = "multiple" => type = MULTIPLE_ANSWERS
    /\ doc.question_type = "absent" /\ doc.cardinality \in {"single", "unset"} => type = MULTIPLE_CHOICE
    /\ doc.question_type = "absent" /\ doc.cardinality \notin {"multiple", "single", "unset"}
            => type = ESSAY

\* C27: the type of a parsed question follows the first applicable rule: an
\* explicit type field gives the table entry of its lower-cased value, or
\* essay for a value outside the table; without the field a response
\* declaration gives multiple-answers for cardinality 'multiple' and
\* multiple-choice for 'single' or a missing attribute; otherwise essay.
C27_TypeByFirstApplicableRule ==
    JustParsed =>
        \A f \in QuestionFiles : \A question \in QuestionsFrom(f) :
            TypedBy(disk[f], question.question_type)

C27_Witness ==
    /\ JustParsed
    /\ QuestionFiles = {Q1_QA, Q1_QB}
    /\ disk[Q1_QA].question_type = "Multiple_Answers_Question"
    /\ disk[Q1_QA].cardinality = "single"
    /\ disk[Q1_QB].question_type = "hot_spot_question"
    /\ disk[Q1_QB].cardinality = "multiple"
    /\ \E question \in QuestionsFrom(Q1_QA) : question.question_type = MULTIPLE_ANSWERS
    /\ \E question \in QuestionsFrom(Q1_QB) : question.question_type = ESSAY

-----------------------------------------------------------------------------
(* Properties of MigrationReport.aggregate_errors *)

\* aggregate_errors has been called in this run
Aggregated_called == pc \in {"finalize", "done"}

ErrorsOf(report) == IF report = NoReport THEN <<>> ELSE report.errors

InStageOrder ==
    all_errors = ErrorsOf(validation_report) \o ErrorsOf(parse_report)
                    \o ErrorsOf(transformation_report) \o ErrorsOf(verification_report)

CountedOnce ==
    /\ total_errors + total_warnings + total_info = Len(all_errors)
    /\ total_errors = Cardinality({i \in DOMAIN all_errors : all_errors[i].severity \in {ERROR, CRITICAL}})
    /\ total_warnings = Cardinality({i \in DOMAIN all_errors : all_errors[i].severity = WARNING})
    /\ total_info = Cardinality({i \in DOMAIN all_errors : all_errors[i].severity = INFO})

\* the call of _finalize_report follows the call of ReportGenerator.generate
SecondCall == pc = "finalize" /\ pc' = "done" /\ InStageOrder

\* C28: after aggregate_errors, all_errors is the concatenation of the stage
\* reports' diagnostics in the order validation, parse, resolution,
\* transformation, verification, each stage in its recording order; the three
\* totals count every diagnostic exactly once, so their sum is the length of
\* all_errors; a second call leaves the list and the totals as they are.
C28_AggregateInStageOrderCountedOnce ==
    /\ [](Aggregated_called => InStageOrder /\ CountedOnce)
    /\ [][SecondCall => /\ all_errors' = all_errors
                        /\ total_errors' = total_errors
                        /\ total_warnings' = total_warnings
                        /\ total_info' = total_info]_vars

C28_Witness ==
    /\ pc = "done"
    /\ ErrorsOf(validation_report) # <<>>
    /\ ErrorsOf(parse_report) # <<>>
    /\ ErrorsOf(transformation_report) # <<>>
    /\ total_errors > 0 /\ total_warnings > 0 /\ total_info > 0
    /\ Len(all_errors) >= 4

-----------------------------------------------------------------------------
(* Properties of the counters of the TransformationReport *)

\* the source types of the questions the transformer skipped as unsupported
SkippedTypes == {Visited(v).question_type : v \in {w \in Visits : Unmapped(Visited(w))}}

\* C29: after transform the unsupported-type list of the report contains
\* every source question type of which a question was skipped as unsupported
\* in the run.
C29_SkippedTypesListed ==
    Transformed =>
        \A t \in SkippedTypes : t \in Range(transformation_report.unsupported_question_types)

\* C30: after transform the counters of the report agree with the output
\* tree: topics_created is the number of topics, lessons_created,
\* quizzes_created and assignments_created are the numbers of lessons, quizzes
\* and assignments over all topics, questions_created is the number of
\* questions over all quizzes of the tree, as get_content_counts counts them.
C30_CountersAgreeWithTree ==
    Transformed =>
        /\ transformation_report.topics_created = get_content_counts(tutor_course).topics
        /\ transformation_report.lessons_created = get_content_counts(tutor_course).lessons
        /\ transformation_report.quizzes_created = get_content_counts(tutor_course).quizzes
        /\ transformation_report.assignments_created = get_content_counts(tutor_course).assignments
        /\ transformation_report.questions_created = get_content_counts(tutor_course).questions

C30_Witness ==
    /\ Transformed
    /\ transformation_report.topics_created >= 2
    /\ transformation_report.lessons_created >= 1
    /\ transformation_report.quizzes_created >= 1
    /\ transformation_report.assignments_created >= 1
    /\ transformation_report.questions_created >= 2

====
